---- MODULE Spec2Model ----
(***************************************************************************)
(* A model of the gemini-cli MCP / OpenAI bridge.                          *)
(*                                                                         *)
(*  - the chat-completions streaming pipeline: the route handler, the      *)
(*    ReadableStream wrapping the model's event generator, the stateful    *)
(*    stream transformer and the loop that writes frames to the response;  *)
(*  - the tool-call id grammar call_<name>_<uuid> and its parser;          *)
(*  - the MCP session registry (GcliMcpBridge.start);                      *)
(*  - the model invocation of a request (GeminiApiClient.sendMessageStream) *)
(*    and the translation of its messages and tool-choice directive;       *)
(*  - the callback of a registered tool and the conversion of a tool's     *)
(*    parameter schema to a validator;                                     *)
(*  - the classification of errors (mapErrorToOpenAIError);                *)
(*  - the conversion of a tool's result to content blocks, the model the   *)
(*    web tools run with, and the sanitization of the parameter schemas of *)
(*    external tools (sanitizeGeminiSchema).                               *)
(*                                                                         *)
(* Strings whose characters matter (function names, call ids) are          *)
(* sequences of one-character strings.                                     *)
(***************************************************************************)
EXTENDS Naturals, Integers, Sequences, FiniteSets, TLC

\* ------------------------------------------------------------------ bounds

\* Events the upstream model stream yields in one response.
MaxEvents == 3
\* Longest function name of the id round trip.
MaxNameLen == 3
\* Messages in the body of one chat-completion request.
MaxMsgs == 2
\* Tokens in the content of one tool-result message.
MaxContentLen == 5
\* Tool calls one tool callback answers.
MaxCalls == 2
\* Events the model yields in each of two concurrent responses.
MaxPairEvents == 2
\* Tool calls in one assistant message.
MaxToolCalls == 2
\* Content parts in one multi-part message.
MaxParts == 2
\* Words in the message of a thrown error.
MaxWords == 2
\* Parts in the llmContent of one tool result.
MaxResultParts == 2
\* Calls executed on the tools of one session.
MaxExecutions == 2
\* Levels of nesting in the parameter schema of an external tool.
MaxSchemaDepth == 2
\* Levels of nesting below a property of a tool's parameter schema.
MaxDepth == 1
\* Elements of an array among the arguments of a tool call.
MaxArrayLen == 2

\* ------------------------------------------------------------------- state

\* One streaming chat-completion request.
VARIABLES
  pc,             \* where the route handler of the request is
  headersSent,    \* res.headersSent
  status,         \* the HTTP status of the response (0: not set by the handler)
  contentType,    \* the Content-Type header ("" when not set)
  modelCalls,     \* calls of client.sendMessageStream for the request
  srcState,       \* the ReadableStream around the generator: open, closed, errored
  events,         \* every event the generator has yielded, in order
  rq,             \* the ReadableStream's queue: positions in events not yet transformed
  isFirstChunk,   \* transformer state
  toolCallIndex,  \* transformer state
  uuids,          \* how many UUIDs randomUUID() has handed out
  tstate,         \* the TransformStream: open, closed (flushed), errored
  tq,             \* the transformer's readable queue: frames not yet read by the handler
  written,        \* the frames res.write has written, in order
  resEnded,       \* how many times the response was ended (res.end / res.json)
  emitted,        \* history: every frame the transformer has enqueued, in order
  consumed,       \* history: how many events transform() has been called on
  stream,         \* body.stream of the request ("none" before it is received)
  body,           \* the JSON body the handler answered with (NoJson: none)
  thrown,         \* the error the try block threw (NoError: none)
  abortedAt       \* -1, or how many events had been yielded when the client went away

streamVars == <<pc, headersSent, status, contentType, modelCalls, srcState, events, rq,
                isFirstChunk, toolCallIndex, uuids, tstate, tq, written, resEnded,
                emitted, consumed, stream, body, thrown, abortedAt>>

\* The tool-call id round trip.
VARIABLES
  idPc,       \* new, generated, parsed
  idName,     \* the function name of the tool call
  idUuid,     \* which UUID randomUUID() returns for it
  idCall,     \* the id the stream transformer generates
  idParsed    \* the name the message translator recovers from the id

idVars == <<idPc, idName, idUuid, idCall, idParsed>>

\* The /mcp endpoint.
VARIABLES
  sessions,     \* this.sessions: session id -> {mcpServer, transport}
  servers,      \* the McpServer instances made so far: id -> its state
  transports,   \* the StreamableHTTPServerTransport instances made so far: id -> its state
  reqs          \* the /mcp requests: where each handler is and what it answered

mcpVars == <<sessions, servers, transports, reqs>>

\* The model invocations of concurrent chat-completion requests.
VARIABLES
  chatReqs,   \* per request: where sendMessageStream is, its messages, what it sent
  chats       \* the GeminiChat objects made so far: id -> the history each holds

chatVars == <<chatReqs, chats>>

\* The translation of one tool-result message.
VARIABLES
  plPc,        \* new, translated
  plContent,   \* msg.content: a sequence of JSON tokens
  plPayload    \* functionResponse.response

payloadVars == <<plPc, plContent, plPayload>>

\* The callback of a registered tool.
VARIABLES
  toolCall,   \* the call being executed (NoCall: none)
  toolLog     \* the calls answered so far, in order

toolVars == <<toolCall, toolLog>>

\* The registration of one tool and the validation of one call's arguments.
VARIABLES
  scPc,         \* new, registered, validated
  scSchema,     \* tool.schema.parameters
  scArgs,       \* the arguments of the call
  scShape,      \* what convertJsonSchemaToZod returned, or that it threw
  scAccepted    \* whether the arguments passed the validator

schemaVars == <<scPc, scSchema, scArgs, scShape, scAccepted>>

\* Two streaming responses in progress at once, each with its transformer.
VARIABLES
  responses,    \* per response: its stream's state, the events transformed, the frames put out
  closures,     \* the variables each createOpenAIStreamTransformer call closes over
  pairUuids,    \* how many UUIDs randomUUID() has handed out
  now           \* Math.floor(Date.now() / 1000)

pairVars == <<responses, closures, pairUuids, now>>

\* The translation of one message of a request.
VARIABLES
  msgPc,    \* new, translated
  msgIn,    \* the OpenAIMessage
  msgOut    \* the Content openAIMessageToGemini returns

msgVars == <<msgPc, msgIn, msgOut>>

\* The tool-choice directive of one request.
VARIABLES
  tcPc,               \* new, configured
  tool_choice,        \* body.tool_choice
  generationConfig    \* the GenerateContentConfig sendMessageStream builds

choiceVars == <<tcPc, tool_choice, generationConfig>>

\* The classification of one thrown value.
VARIABLES
  errPc,       \* new, mapped
  errThrown,   \* the value the catch block caught
  errMapped    \* what mapErrorToOpenAIError returned for it

errVars == <<errPc, errThrown, errMapped>>

\* The conversion of one tool result.
VARIABLES
  grPc,        \* new, converted
  grContent,   \* the llmContent of the ToolResult
  grBlocks     \* the content of the CallToolResult made from it

resultVars == <<grPc, grContent, grBlocks>>

\* The registration of the registry's tools on one session's server.
VARIABLES
  toolModelEnv,   \* process.env.GEMINI_TOOLS_DEFAULT_MODEL
  config,         \* this.config, shared by the bridge and the registry's tools
  registered,     \* what mcpServer.registerTool was called with, in order
  executions      \* the calls executed: the instance and the model it saw

rebindVars == <<toolModelEnv, config, registered, executions>>

\* The sanitization of the parameter schema of one external tool.
VARIABLES
  sanPc,          \* new, sanitized
  sanReceived,    \* tool.function.parameters as the request arrived
  sanParameters,  \* tool.function.parameters, the object of the request body
  sanitizedParameters  \* what sanitizeGeminiSchema returned for it

sanitizeVars == <<sanPc, sanReceived, sanParameters, sanitizedParameters>>

vars == <<streamVars, idVars, mcpVars, chatVars, payloadVars, toolVars, schemaVars, pairVars, msgVars, choiceVars, errVars, resultVars, rebindVars, sanitizeVars>>

\* What the steps of one part of the bridge leave alone: the other parts.
notStream == <<idVars, mcpVars, chatVars, payloadVars, toolVars, schemaVars, pairVars, msgVars, choiceVars, errVars, resultVars, rebindVars, sanitizeVars>>
notId == <<streamVars, mcpVars, chatVars, payloadVars, toolVars, schemaVars, pairVars, msgVars, choiceVars, errVars, resultVars, rebindVars, sanitizeVars>>
notMcp == <<streamVars, idVars, chatVars, payloadVars, toolVars, schemaVars, pairVars, msgVars, choiceVars, errVars, resultVars, rebindVars, sanitizeVars>>
notChat == <<streamVars, idVars, mcpVars, payloadVars, toolVars, schemaVars, pairVars, msgVars, choiceVars, errVars, resultVars, rebindVars, sanitizeVars>>
notPayload == <<streamVars, idVars, mcpVars, chatVars, toolVars, schemaVars, pairVars, msgVars, choiceVars, errVars, resultVars, rebindVars, sanitizeVars>>
notTool == <<streamVars, idVars, mcpVars, chatVars, payloadVars, schemaVars, pairVars, msgVars, choiceVars, errVars, resultVars, rebindVars, sanitizeVars>>
notSchema == <<streamVars, idVars, mcpVars, chatVars, payloadVars, toolVars, pairVars, msgVars, choiceVars, errVars, resultVars, rebindVars, sanitizeVars>>
notPair == <<streamVars, idVars, mcpVars, chatVars, payloadVars, toolVars, schemaVars, msgVars, choiceVars, errVars, resultVars, rebindVars, sanitizeVars>>
notMsg == <<streamVars, idVars, mcpVars, chatVars, payloadVars, toolVars, schemaVars, pairVars, choiceVars, errVars, resultVars, rebindVars, sanitizeVars>>
notChoice == <<streamVars, idVars, mcpVars, chatVars, payloadVars, toolVars, schemaVars, pairVars, msgVars, errVars, resultVars, rebindVars, sanitizeVars>>
notErr == <<streamVars, idVars, mcpVars, chatVars, payloadVars, toolVars, schemaVars, pairVars, msgVars, choiceVars, resultVars, rebindVars, sanitizeVars>>
notResult == <<streamVars, idVars, mcpVars, chatVars, payloadVars, toolVars, schemaVars, pairVars, msgVars, choiceVars, errVars, rebindVars, sanitizeVars>>
notRebind == <<streamVars, idVars, mcpVars, chatVars, payloadVars, toolVars, schemaVars, pairVars, msgVars, choiceVars, errVars, resultVars, sanitizeVars>>
notSanitize == <<streamVars, idVars, mcpVars, chatVars, payloadVars, toolVars, schemaVars, pairVars, msgVars, choiceVars, errVars, resultVars, rebindVars>>

\* ------------------------------------------------------------- strings

Underscore == "_"

\* The characters function names are built from in the id round trip.
NameChars == {"a", "b", Underscore}

\* randomUUID(): hexadecimal digits and hyphens, never an underscore.
\* The n-th UUID drawn is a fresh one.
HexDigits == <<"0", "1", "2", "3", "4", "5", "6", "7", "8", "9">>

randomUUID(n) == <<HexDigits[(n % 10) + 1], "-", HexDigits[((n \div 10) % 10) + 1]>>

CallPrefix == <<"c", "a", "l", "l">>

\* `call_${name}_${randomUUID()}`
toolCallId(name, uuid) == CallPrefix \o <<Underscore>> \o name \o <<Underscore>> \o uuid

\* String.prototype.split('_'): the pieces between the separators, the empty
\* ones included; a string without separator is one piece.
RECURSIVE split(_)
split(s) ==
  IF \A i \in 1..Len(s) : s[i] # Underscore
    THEN <<s>>
    ELSE LET k == CHOOSE i \in 1..Len(s) :
                    /\ s[i] = Underscore
                    /\ \A j \in 1..(i - 1) : s[j] # Underscore
         IN <<SubSeq(s, 1, k - 1)>> \o split(SubSeq(s, k + 1, Len(s)))

\* Array.prototype.join('_')
RECURSIVE join(_)
join(parts) ==
  IF Len(parts) = 0 THEN <<>>
  ELSE IF Len(parts) = 1 THEN parts[1]
  ELSE parts[1] \o <<Underscore>> \o join(Tail(parts))

\* Array.prototype.slice(from, to) with 0-based, end-exclusive indices.
slice(parts, from, to) == SubSeq(parts, from + 1, to)

unknown_tool_from_id ==
  <<"u", "n", "k", "n", "o", "w", "n", "_", "t", "o", "o", "l", "_",
    "f", "r", "o", "m", "_", "i", "d">>

\* A parser that takes the piece after call_ only.
parseFirstPieceOnly(toolCallId_) ==
  LET parts == split(toolCallId_)
  IN IF Len(parts) > 2 /\ parts[1] = CallPrefix
       THEN parts[2]
       ELSE unknown_tool_from_id

parseFunctionNameFromId(toolCallId_) ==
  LET parts == split(toolCallId_)
  IN IF Len(parts) > 2 /\ parts[1] = CallPrefix
       THEN join(slice(parts, 1, Len(parts) - 1))
       ELSE unknown_tool_from_id

\* ------------------------------------------------------- stream events

NoText == ""
NoName == <<>>
NoArgs == "none"

\* The args objects of the tool calls and JSON.stringify of each.
ArgsEmpty == "args_empty"
ArgsX == "args_x"

stringify(args) ==
  CASE args = ArgsEmpty -> "{}"
    [] args = ArgsX -> "{\"x\":1}"
    [] OTHER -> "null"

TextEvent(t) == [type |-> "text", text |-> t, name |-> NoName, args |-> NoArgs]
ToolEvent(n, a) == [type |-> "tool_code", text |-> NoText, name |-> n, args |-> a]
ReasoningEvent == [type |-> "reasoning", text |-> NoText, name |-> NoName, args |-> NoArgs]

\* The values of the transformer's input type StreamChunk the model draws
\* from: text deltas (one of them empty), tool calls (one name holds an
\* underscore) and the ignorable kind.
StreamChunks ==
  {TextEvent(""), TextEvent("a"), TextEvent("b"),
   ToolEvent(<<"f">>, ArgsEmpty), ToolEvent(<<"g", Underscore, "h">>, ArgsX),
   ReasoningEvent}

ContentBearing(e) == \/ e.type = "text" /\ e.text # ""
                     \/ e.type = "tool_code"

\* ---------------------------------------------------------------- errors

\* What a try block can throw: an Error with a message (a sequence of words)
\* or a value that is not an Error.
NoError == [kind |-> "none", message |-> <<>>]
Error(message) == [kind |-> "Error", message |-> message]
NonError == [kind |-> "value", message |-> <<>>]

\* message.includes(word)
includes(message, word) == \E i \in 1..Len(message) : message[i] = word

\* A comparison that keeps the case of the message.
sameCase(message) == message

\* message.toLowerCase(), word by word.
toLowerCase(message) ==
  [i \in 1..Len(message) |->
     CASE message[i] \in {"Quota", "QUOTA"} -> "quota"
       [] message[i] \in {"Invalid", "INVALID"} -> "invalid"
       [] message[i] = "Authentication failed" -> "authentication failed"
       [] OTHER -> message[i]]

OpenAIError(message, type, code) ==
  [message |-> message, type |-> type, param |-> "null", code |-> code]

\* mapErrorToOpenAIError(error): {openAIError: {error: ...}, statusCode}
mapErrorToOpenAIError(error) ==
  IF error.kind # "Error"
    THEN [openAIError |-> OpenAIError(<<"An unknown error occurred.">>,
                                      "server_error", "internal_error"),
          statusCode |-> 500]
  ELSE IF includes(error.message, "Authentication failed")
    THEN [openAIError |-> OpenAIError(<<"Invalid authentication credentials.">>,
                                      "authentication_error", "invalid_api_key"),
          statusCode |-> 401]
  ELSE IF includes(error.message, "429") \/ includes(toLowerCase(error.message), "quota")
    THEN [openAIError |-> OpenAIError(<<"You exceeded your current quota.">>,
                                      "server_error", "rate_limit_exceeded"),
          statusCode |-> 429]
  ELSE IF includes(error.message, "400") \/ includes(toLowerCase(error.message), "invalid")
    THEN [openAIError |-> OpenAIError(error.message,
                                      "invalid_request_error", "invalid_request"),
          statusCode |-> 400]
  ELSE IF includes(error.message, "500")
    THEN [openAIError |-> OpenAIError(error.message, "server_error", "server_error"),
          statusCode |-> 500]
  ELSE [openAIError |-> OpenAIError(error.message, "server_error", "internal_error"),
        statusCode |-> 500]

\* A thrown value that is not an Error and holds a text (a thrown string).
ThrownString(message) == [kind |-> "value", message |-> message]

\* The words the messages of the classified errors are made of.
Words == {"Authentication failed", "429", "quota", "QUOTA", "400", "Invalid", "500", "boom"}

\* Every message of at most MaxWords words.
ErrorMessages == UNION {[1..n -> Words] : n \in 0..MaxWords}

\* The values a catch block can catch.
ThrownValues ==
  {Error(message) : message \in ErrorMessages}
  \cup {NonError, ThrownString(<<"Authentication failed">>), ThrownString(<<"429">>)}

\* The errors the model call is taken to fail with.
UpstreamErrors ==
  {Error(<<"Authentication failed">>), Error(<<"Quota", "exceeded">>), Error(<<"boom">>)}

\* req.body is undefined: `body.model` throws a TypeError.
TypeErrorNoBody == Error(<<"Cannot read properties of undefined">>)

\* The JSON bodies of the chat-completions route.
NoJson == [kind |-> "none"]

\* res.status(501).json({error: 'Non-streaming responses are not yet implemented.'})
NotImplementedBody ==
  [kind |-> "json", error |-> <<"Non-streaming responses are not yet implemented.">>]

\* res.status(statusCode).json(openAIError)
ErrorBody(openAIError) == [kind |-> "json", error |-> openAIError]

\* ------------------------------------------------------- wire frames

NoContent == "<absent>"
NoFinish == "null"

\* One entry of delta.tool_calls; hasName is whether function.name is set.
ToolCallDelta(index, id, hasName, name, arguments) ==
  [index |-> index, id |-> id, type |-> "function",
   hasName |-> hasName, name |-> name, arguments |-> arguments]

\* delta: role present or not, content present or not, tool_calls.
Delta(role, content, tool_calls) ==
  [role |-> role, content |-> content, tool_calls |-> tool_calls]

EmptyDelta == Delta(FALSE, NoContent, <<>>)

\* createChunk(delta, finish_reason) as the frame `data: <json>\n\n`; src is
\* the position of the upstream event the frame was made from (0: none).
createChunk(delta, finish_reason, src) ==
  [kind |-> "chunk", delta |-> delta, finish_reason |-> finish_reason, src |-> src]

\* `data: [DONE]\n\n`
DoneFrame == [kind |-> "done", delta |-> EmptyDelta, finish_reason |-> NoFinish, src |-> 0]

\* `data: ${JSON.stringify({ error: openAIError.error })}\n\n`
ErrorFrame(error) ==
  [kind |-> "error", delta |-> EmptyDelta, finish_reason |-> NoFinish, src |-> 0,
   error |-> error]

\* ------------------------------------------------- the stream transformer

\* A queue that puts the newest frame first.
enqueueChunkFirst(q, chunk) == <<chunk>> \o q

\* controller.enqueue(encoder.encode(`data: ${JSON.stringify(chunk)}\n\n`))
enqueueChunk(q, chunk) == Append(q, chunk)

\* A text case without the `if (chunk.data)` guard.
textCaseNoGuard(q, e, delta, src) ==
  enqueueChunk(q, createChunk([delta EXCEPT !.content = e.text], NoFinish, src))

\* case 'text': one chunk whose content is the delta text, none for an empty text.
textCase(q, e, delta, src) ==
  IF e.text # ""
    THEN enqueueChunk(q, createChunk([delta EXCEPT !.content = e.text], NoFinish, src))
    ELSE q

\* A tool-call case whose second chunk repeats the name and drops the arguments.
toolCodeCaseNoArgs(q, e, delta, index, id, src) ==
  LET nameDelta == [delta EXCEPT !.tool_calls =
                      <<ToolCallDelta(index, id, TRUE, e.name, "")>>]
  IN enqueueChunk(enqueueChunk(q, createChunk(nameDelta, NoFinish, src)),
                  createChunk(nameDelta, NoFinish, src))

\* case 'tool_code': the name chunk (it keeps the role of delta), then the
\* arguments chunk, both at index and with id.
toolCodeCase(q, e, delta, index, id, src) ==
  LET nameDelta == [delta EXCEPT !.tool_calls =
                      <<ToolCallDelta(index, id, TRUE, e.name, "")>>]
      argsDelta == Delta(FALSE, NoContent,
                      <<ToolCallDelta(index, id, FALSE, NoName, stringify(e.args))>>)
  IN enqueueChunk(enqueueChunk(q, createChunk(nameDelta, NoFinish, src)),
                  createChunk(argsDelta, NoFinish, src))

\* A finish reason that ignores the tool calls.
finishReasonAlwaysStop(index) == "stop"

\* toolCallIndex > 0 ? 'tool_calls' : 'stop'
finishReason(index) == IF index > 0 THEN "tool_calls" ELSE "stop"

\* A flush that ends the stream without the sentinel.
flushNoDone(q, index) == enqueueChunk(q, createChunk(EmptyDelta, finishReason(index), 0))

\* flush(controller): the finish chunk, then `data: [DONE]`.
flush(q, index) ==
  enqueueChunk(enqueueChunk(q, createChunk(EmptyDelta, finishReason(index), 0)), DoneFrame)

\* A reasoning case that forwards the event as a chunk of its own.
reasoningCaseEmits(q, e, delta, src) == enqueueChunk(q, createChunk(delta, NoFinish, src))

\* case 'reasoning': the event is logged and nothing is enqueued.
reasoningCase(q, e, delta, src) == q

\* transform(chunk, controller) on the event at position src: the new queue.
transform(q, e, src, first, index, id) ==
  LET delta == Delta(first, NoContent, <<>>)
  IN CASE e.type = "text" -> textCase(q, e, delta, src)
       [] e.type = "tool_code" -> toolCodeCase(q, e, delta, index, id, src)
       [] e.type = "reasoning" -> reasoningCase(q, e, delta, src)
       [] OTHER -> q

\* toolCallIndex after transform: toolCallIndex++ in the tool_code case.
toolCallIndexAfter(e, index) == IF e.type = "tool_code" THEN index + 1 ELSE index

\* --------------------------------------- POST /chat/completions, streaming

\* body.stream as the request gives it.
StreamFlags == {"true", "false", "absent"}

InitStream ==
  /\ pc = "idle"
  /\ headersSent = FALSE
  /\ status = 0
  /\ contentType = ""
  /\ modelCalls = 0
  /\ srcState = "none"
  /\ events = <<>>
  /\ rq = <<>>
  /\ isFirstChunk = TRUE
  /\ toolCallIndex = 0
  /\ uuids = 0
  /\ tstate = "none"
  /\ tq = <<>>
  /\ written = <<>>
  /\ resEnded = 0
  /\ emitted = <<>>
  /\ consumed = 0
  /\ stream = "none"
  /\ body = NoJson
  /\ thrown = NoError
  /\ abortedAt = -1

\* A handler that opens the event stream whatever body.stream is.
streamingAlways(flag) == TRUE

\* const stream = body.stream !== false
streaming(flag) == flag # "false"

\* A handler that leaves the response open.
resEndForgotten(ended) == ended

\* res.end(), and the end res.json() puts to the response.
resEnd(ended) == ended + 1

\* A handler that sets the headers of the event stream and does not flush them.
headersNotFlushed(sent) == sent

\* res.flushHeaders(): the status line and the headers go out.
flushHeaders(sent) == TRUE

\* The handler up to flushHeaders: stream:false is answered 501 with a JSON
\* body; anything else sets the event-stream headers and flushes them.
Receive(flag) ==
  /\ pc = "idle"
  /\ stream' = flag
  /\ IF ~streaming(flag)
       THEN /\ status' = 501
            /\ contentType' = "application/json"
            /\ body' = NotImplementedBody
            /\ headersSent' = TRUE
            /\ resEnded' = resEnd(resEnded)
            /\ pc' = "done"
       ELSE /\ status' = 200
            /\ contentType' = "text/event-stream"
            /\ body' = body
            /\ headersSent' = flushHeaders(headersSent)
            /\ resEnded' = resEnded
            /\ pc' = "sending"
  /\ UNCHANGED <<modelCalls, srcState, events, rq, isFirstChunk, toolCallIndex, uuids,
                 tstate, tq, written, emitted, consumed, thrown, abortedAt>>
  /\ UNCHANGED notStream

\* A response that puts each frame before the ones already written.
resWriteFirst(w, frame) == <<frame>> \o w

\* res.write(value): the frame goes out after everything written before.
resWrite(w, frame) == Append(w, frame)

\* A catch block that writes the error event twice.
catchBlockTwice(w, e) ==
  resWrite(resWrite(w, ErrorFrame(mapErrorToOpenAIError(e).openAIError)),
           ErrorFrame(mapErrorToOpenAIError(e).openAIError))

\* The catch block when the headers are sent already: the mapped error is
\* written as one data event.
catchBlock(w, e) == resWrite(w, ErrorFrame(mapErrorToOpenAIError(e).openAIError))

\* The catch block of the handler on the error e: with no header sent yet the
\* mapped status and the mapped error as JSON body; otherwise the error event.
\* Either way the response is ended.
CatchBlock(e) ==
  /\ thrown' = e
  /\ IF ~headersSent
       THEN /\ status' = mapErrorToOpenAIError(e).statusCode
            /\ contentType' = "application/json"
            /\ body' = ErrorBody(mapErrorToOpenAIError(e).openAIError)
            /\ headersSent' = TRUE
            /\ written' = written
       ELSE /\ written' = catchBlock(written, e)
            /\ UNCHANGED <<status, contentType, body, headersSent>>
  /\ resEnded' = resEnd(resEnded)
  /\ pc' = "done"

\* The request has no parsed body: reading body.model throws before any
\* header is set.
ReceiveNoBody ==
  /\ pc = "idle"
  /\ CatchBlock(TypeErrorNoBody)
  /\ UNCHANGED <<modelCalls, srcState, events, rq, isFirstChunk, toolCallIndex, uuids,
                 tstate, tq, emitted, consumed, stream, abortedAt>>
  /\ UNCHANGED notStream

\* await client.sendMessageStream(...) resolves: the transformer is created
\* (chatID draws a UUID), the ReadableStream starts, the read loop begins.
SendMessageStream ==
  /\ pc = "sending"
  /\ modelCalls' = modelCalls + 1
  /\ srcState' = "open"
  /\ tstate' = "open"
  /\ isFirstChunk' = TRUE
  /\ toolCallIndex' = 0
  /\ uuids' = uuids + 1
  /\ pc' = "reading"
  /\ UNCHANGED <<headersSent, status, contentType, events, rq, tq, written, resEnded,
                 emitted, consumed, stream, body, thrown, abortedAt>>
  /\ UNCHANGED notStream

\* await client.sendMessageStream(...) rejects with the error e.
SendMessageStreamFails(e) ==
  /\ pc = "sending"
  /\ modelCalls' = modelCalls + 1
  /\ CatchBlock(e)
  /\ UNCHANGED <<srcState, events, rq, isFirstChunk, toolCallIndex, uuids, tstate, tq,
                 emitted, consumed, stream, abortedAt>>
  /\ UNCHANGED notStream

\* for await (const value of geminiStream) controller.enqueue(value)
Yield(e) ==
  /\ srcState = "open"
  /\ Len(events) < MaxEvents
  /\ events' = Append(events, e)
  /\ rq' = Append(rq, Len(events) + 1)
  /\ UNCHANGED <<pc, headersSent, status, contentType, modelCalls, srcState, isFirstChunk,
                 toolCallIndex, uuids, tstate, tq, written, resEnded, emitted, consumed,
                 stream, body, thrown, abortedAt>>
  /\ UNCHANGED notStream

\* The generator returns: controller.close().
SourceClose ==
  /\ srcState = "open"
  /\ srcState' = "closed"
  /\ UNCHANGED <<pc, headersSent, status, contentType, modelCalls, events, rq, isFirstChunk,
                 toolCallIndex, uuids, tstate, tq, written, resEnded, emitted, consumed,
                 stream, body, thrown, abortedAt>>
  /\ UNCHANGED notStream

\* The generator throws e: start() rejects, the ReadableStream is errored with
\* e and its queue is reset.
SourceError(e) ==
  /\ srcState = "open"
  /\ srcState' = "errored"
  /\ thrown' = e
  /\ rq' = <<>>
  /\ UNCHANGED <<pc, headersSent, status, contentType, modelCalls, events, isFirstChunk,
                 toolCallIndex, uuids, tstate, tq, written, resEnded, emitted, consumed,
                 stream, body, abortedAt>>
  /\ UNCHANGED notStream

\* pipeThrough hands the next queued event to transform().
Transform ==
  /\ tstate = "open"
  /\ rq # <<>>
  /\ LET src == Head(rq)
         e == events[src]
         id == toolCallId(e.name, randomUUID(uuids))
     IN /\ tq' = transform(tq, e, src, isFirstChunk, toolCallIndex, id)
        /\ emitted' = transform(emitted, e, src, isFirstChunk, toolCallIndex, id)
        /\ toolCallIndex' = toolCallIndexAfter(e, toolCallIndex)
        /\ uuids' = IF e.type = "tool_code" THEN uuids + 1 ELSE uuids
  /\ isFirstChunk' = FALSE
  /\ rq' = Tail(rq)
  /\ consumed' = consumed + 1
  /\ UNCHANGED <<pc, headersSent, status, contentType, modelCalls, srcState, events,
                 tstate, written, resEnded, stream, body, thrown, abortedAt>>
  /\ UNCHANGED notStream

\* The source is closed and drained: pipeThrough closes the transformer, which
\* runs flush().
Flush ==
  /\ tstate = "open"
  /\ srcState = "closed"
  /\ rq = <<>>
  /\ tq' = flush(tq, toolCallIndex)
  /\ emitted' = flush(emitted, toolCallIndex)
  /\ tstate' = "closed"
  /\ UNCHANGED <<pc, headersSent, status, contentType, modelCalls, srcState, events, rq,
                 isFirstChunk, toolCallIndex, uuids, written, resEnded, consumed,
                 stream, body, thrown, abortedAt>>
  /\ UNCHANGED notStream

\* The source's error reaches the transformer: its readable side is errored
\* and the frames still queued there are dropped.
PipeError ==
  /\ tstate = "open"
  /\ srcState = "errored"
  /\ tstate' = "errored"
  /\ tq' = <<>>
  /\ UNCHANGED <<pc, headersSent, status, contentType, modelCalls, srcState, events, rq,
                 isFirstChunk, toolCallIndex, uuids, written, resEnded, emitted, consumed,
                 stream, body, thrown, abortedAt>>
  /\ UNCHANGED notStream

\* const {done, value} = await reader.read(); res.write(value)
Write ==
  /\ pc = "reading"
  /\ tq # <<>>
  /\ written' = resWrite(written, Head(tq))
  /\ tq' = Tail(tq)
  /\ UNCHANGED <<pc, headersSent, status, contentType, modelCalls, srcState, events, rq,
                 isFirstChunk, toolCallIndex, uuids, tstate, resEnded, emitted, consumed,
                 stream, body, thrown, abortedAt>>
  /\ UNCHANGED notStream

\* reader.read() reports done: the loop ends and res.end() is called.
End ==
  /\ pc = "reading"
  /\ tq = <<>>
  /\ tstate = "closed"
  /\ resEnded' = resEnd(resEnded)
  /\ pc' = "done"
  /\ UNCHANGED <<headersSent, status, contentType, modelCalls, srcState, events, rq,
                 isFirstChunk, toolCallIndex, uuids, tstate, tq, written, emitted, consumed,
                 stream, body, thrown, abortedAt>>
  /\ UNCHANGED notStream

\* reader.read() rejects with the stream's error: the catch block runs.
Catch ==
  /\ pc = "reading"
  /\ tstate = "errored"
  /\ CatchBlock(thrown)
  /\ UNCHANGED <<modelCalls, srcState, events, rq, isFirstChunk, toolCallIndex, uuids,
                 tstate, tq, emitted, consumed, stream, abortedAt>>
  /\ UNCHANGED notStream

\* The client goes away while the request is being served. The handler
\* registers no listener for it and hands no signal to the model call, so
\* nothing but the connection changes.
Abort ==
  /\ pc \in {"sending", "reading"}
  /\ abortedAt = -1
  /\ abortedAt' = Len(events)
  /\ UNCHANGED <<pc, headersSent, status, contentType, modelCalls, srcState, events, rq,
                 isFirstChunk, toolCallIndex, uuids, tstate, tq, written, resEnded,
                 emitted, consumed, stream, body, thrown>>
  /\ UNCHANGED notStream

NextStream ==
  \/ \E flag \in StreamFlags : Receive(flag)
  \/ ReceiveNoBody
  \/ SendMessageStream
  \/ \E e \in UpstreamErrors : SendMessageStreamFails(e)
  \/ \E e \in StreamChunks : Yield(e)
  \/ SourceClose
  \/ \E e \in UpstreamErrors : SourceError(e)
  \/ Transform
  \/ Flush
  \/ PipeError
  \/ Write
  \/ End
  \/ Catch

\* The same steps, and the client going away at any moment of the streaming.
NextStreamAbort ==
  \/ NextStream
  \/ Abort

\* ----------------------------------------------- properties of a stream

\* The response was ended by res.end() after the read loop saw done.
EndedNormally == pc = "done" /\ tstate = "closed"

\* The response was started as an event stream and then ended by the catch block.
EndedByError == pc = "done" /\ contentType = "text/event-stream" /\ tstate # "closed"

IsTextDelta(e) == e.type = "text"
IsNonEmptyText(e) == e.type = "text" /\ e.text # ""
IsToolCall(e) == e.type = "tool_code"

\* A chunk whose delta has a content field.
IsContentChunk(f) == f.kind = "chunk" /\ f.delta.content # NoContent
\* A chunk whose delta has a tool_calls field.
IsToolChunk(f) == f.kind = "chunk" /\ f.delta.tool_calls # <<>>
IsFinishChunk(f) == f.kind = "chunk" /\ f.finish_reason # NoFinish

\* How many elements of seq satisfy Test.
Count(seq, Test(_)) == Cardinality({i \in 1..Len(seq) : Test(seq[i])})

\* The frames a stream of text deltas texts (in order) and nothing else must
\* produce: one content chunk each, the stop chunk, the sentinel.
TextOnlyFrames(texts) ==
  /\ Len(written) = Len(texts) + 2
  /\ \A i \in 1..Len(texts) :
       /\ written[i].kind = "chunk"
       /\ written[i].delta.content = texts[i].text
       /\ written[i].delta.tool_calls = <<>>
       /\ written[i].finish_reason = NoFinish
  /\ written[Len(texts) + 1].kind = "chunk"
  /\ written[Len(texts) + 1].delta.content = NoContent
  /\ written[Len(texts) + 1].delta.tool_calls = <<>>
  /\ written[Len(texts) + 1].finish_reason = "stop"
  /\ written[Len(texts) + 2] = DoneFrame

ToolCallsBefore(n) == Cardinality({s \in 1..n : IsToolCall(events[s])})

\* The positions in the transformer's output of the frames made from event s.
FramesOf(s) == {i \in 1..Len(emitted) : emitted[i].src = s}

\* C2: every tool-call-request event handed to the transformer produces
\* exactly two adjacent chunks with the same call index and the same call id;
\* the first carries the function name and an empty argument string, the
\* second no name and the serialized arguments; the k-th tool call of the
\* stream (from 0) uses index k, so no two tool calls share an index.
C2_ToolCallTwoChunks ==
  \A s \in 1..consumed :
    IsToolCall(events[s]) =>
      \E i \in 1..(Len(emitted) - 1) :
        /\ FramesOf(s) = {i, i + 1}
        /\ Len(emitted[i].delta.tool_calls) = 1
        /\ Len(emitted[i + 1].delta.tool_calls) = 1
        /\ LET first == emitted[i].delta.tool_calls[1]
               second == emitted[i + 1].delta.tool_calls[1]
           IN /\ first.index = ToolCallsBefore(s - 1)
              /\ second.index = first.index
              /\ second.id = first.id
              /\ first.hasName /\ first.name = events[s].name
              /\ first.arguments = ""
              /\ ~second.hasName
              /\ second.arguments = stringify(events[s].args)
              /\ emitted[i].delta.content = NoContent
              /\ emitted[i + 1].delta.content = NoContent
              /\ emitted[i + 1].delta.role = FALSE

\* Two tool calls were transformed and their four chunks written: indices 0, 0, 1, 1.
C2_Witness ==
  /\ consumed = 3
  /\ ToolCallsBefore(3) = 2
  /\ Count(written, IsToolChunk) = 4
  /\ \E i \in 1..Len(written) :
       IsToolChunk(written[i]) /\ written[i].delta.tool_calls[1].index = 1

\* C3: in every stream that ends normally exactly one chunk carries a
\* non-null finish_reason; it comes after every content and tool-call chunk
\* and immediately before [DONE], which is the last frame; its value is
\* "tool_calls" iff at least one tool-call-request event was processed, and
\* "stop" otherwise.
C3_OneFinishChunk ==
  EndedNormally =>
    /\ Len(written) >= 2
    /\ Count(written, IsFinishChunk) = 1
    /\ IsFinishChunk(written[Len(written) - 1])
    /\ written[Len(written)] = DoneFrame
    /\ \A i \in 1..(Len(written) - 2) : written[i].kind = "chunk"
    /\ written[Len(written) - 1].finish_reason =
         IF \E s \in 1..Len(events) : IsToolCall(events[s]) THEN "tool_calls" ELSE "stop"

\* A stream with text and a tool call has ended normally with "tool_calls".
C3_Witness ==
  /\ EndedNormally
  /\ \E s \in 1..Len(events) : IsToolCall(events[s])
  /\ \E s \in 1..Len(events) : IsNonEmptyText(events[s])
  /\ written[Len(written) - 1].finish_reason = "tool_calls"

IsDone(f) == f.kind = "done"
IsError(f) == f.kind = "error"

\* C4 as claimed: every streaming response that has ended holds exactly one
\* [DONE] frame, and it is the last frame, also when the upstream failed
\* after the response had started.
C4_AlwaysOneDone ==
  (pc = "done" /\ contentType = "text/event-stream") =>
    /\ Count(written, IsDone) = 1
    /\ written[Len(written)] = DoneFrame

\* C4 amended: a streaming response that ends normally holds exactly one
\* [DONE] frame, as its last frame, and no error event; a streaming response
\* whose model invocation or upstream event stream fails after the response
\* has started holds no [DONE] frame: its last frame is the one error event.
C4_OneDoneUnlessError ==
  /\ EndedNormally =>
       /\ Count(written, IsDone) = 1
       /\ written[Len(written)] = DoneFrame
       /\ Count(written, IsError) = 0
  /\ EndedByError =>
       /\ Count(written, IsDone) = 0
       /\ Count(written, IsError) = 1
       /\ IsError(written[Len(written)])

\* An upstream failure after two frames had been written: the response has ended.
C4_Witness ==
  /\ EndedByError
  /\ srcState = "errored"
  /\ Len(written) = 3

\* The events handed to the transformer that bear content.
ContentBearingConsumed == {s \in 1..consumed : ContentBearing(events[s])}

HasRole(f) == f.kind = "chunk" /\ f.delta.role

C6_WrittenInEventOrder ==
  /\ \A i, j \in 1..Len(written) :
       (i < j /\ written[j].src > 0) =>
         /\ written[i].src > 0
         /\ written[i].src <= written[j].src
  /\ \A i \in 1..Len(written) :
       written[i].src > 0 =>
         LET f == written[i]
             e == events[f.src]
         IN /\ f.kind = "chunk"
            /\ f.delta.content \in {NoContent, e.text}
            /\ f.delta.content = NoContent => IsToolCall(e)
            /\ \A k \in 1..Len(f.delta.tool_calls) :
                 /\ f.delta.tool_calls[k].name \in {NoName, e.name}
                 /\ f.delta.tool_calls[k].arguments \in {"", stringify(e.args)}
  /\ \A i, j \in 1..Len(written) :
       (i < j /\ written[i].src = written[j].src /\ written[i].src > 0) =>
         (written[i].delta.tool_calls[1].hasName /\ ~written[j].delta.tool_calls[1].hasName)

\* Chunks of three different events, the middle one a tool call, are written.
C6_Witness ==
  /\ Len(written) >= 4
  /\ written[1].src = 1
  /\ written[2].src = 2
  /\ written[3].src = 2
  /\ written[4].src = 3
  /\ written[1].delta.content # written[4].delta.content

LastWritten == written[Len(written)]

\* C16: after the catch block has handled the error thrown, either no header
\* had been sent, and the response is the mapped status with the mapped error
\* as JSON body and no frame; or the event stream had begun, and the mapped
\* error is the last frame, the only error frame, the response is ended once
\* and the status is still 200. No step changes the status once the headers
\* are sent, and no step writes a frame once the handler is done.
C16_ErrorBeforeOrAfterHeaders ==
  /\ []((pc = "done" /\ thrown # NoError) =>
          IF contentType = "application/json"
            THEN /\ status = mapErrorToOpenAIError(thrown).statusCode
                 /\ body = ErrorBody(mapErrorToOpenAIError(thrown).openAIError)
                 /\ written = <<>>
                 /\ resEnded = 1
            ELSE /\ contentType = "text/event-stream"
                 /\ status = 200
                 /\ body = NoJson
                 /\ Len(written) >= 1
                 /\ LastWritten = ErrorFrame(mapErrorToOpenAIError(thrown).openAIError)
                 /\ Count(written, IsError) = 1
                 /\ resEnded = 1)
  /\ [][/\ headersSent => status' = status
        /\ pc = "done" => written' = written /\ resEnded' = resEnded]_vars

\* The model stream failed with an authentication error after two frames had
\* been written: the error event follows them and the status stays 200.
C16_Witness ==
  /\ pc = "done"
  /\ thrown = Error(<<"Authentication failed">>)
  /\ Len(written) = 3
  /\ IsContentChunk(written[1])
  /\ IsError(written[3])
  /\ written[3].error.code = "invalid_api_key"
  /\ status = 200

\* C17: once the client of a streaming request has gone away, the model call
\* yields no further event and no frame made from an event yielded after that
\* moment is written to the response.
C17_AbortStopsForwarding ==
  abortedAt # -1 =>
    /\ Len(events) = abortedAt
    /\ \A i \in 1..Len(written) : written[i].src <= abortedAt

\* A status of the 4xx and 5xx classes other than the 501 of stream: false.
IsErrorStatus(code) == code >= 400 /\ code # 501

\* C36: on the streaming path the headers of the event stream are sent
\* before client.sendMessageStream (message translation and the model
\* invocation) is called. A failure of that call or of the event stream ends
\* a response whose status is still 200 and whose last frame is the error
\* event; an error status is the answer only to a failure raised before the
\* headers were flushed, when the model had not been called and no frame had
\* been written.
C36_HeadersBeforeInvocation ==
  /\ [](/\ modelCalls > 0 =>
            /\ headersSent
            /\ contentType = "text/event-stream"
            /\ status = 200
            /\ body = NoJson
        /\ (pc = "done" /\ thrown # NoError /\ modelCalls > 0) =>
            /\ written # <<>>
            /\ LastWritten = ErrorFrame(mapErrorToOpenAIError(thrown).openAIError)
        /\ IsErrorStatus(status) =>
            /\ modelCalls = 0
            /\ events = <<>>
            /\ written = <<>>
            /\ thrown = TypeErrorNoBody
            /\ body = ErrorBody(mapErrorToOpenAIError(thrown).openAIError))
  /\ [][modelCalls' # modelCalls => (headersSent /\ status = 200 /\ written = <<>>)]_vars

\* The call of the model was rejected with a quota error after the headers
\* had gone out: the response is the 200 event stream with the error event
\* as its only frame.
C36_Witness ==
  /\ pc = "done"
  /\ modelCalls = 1
  /\ events = <<>>
  /\ thrown = Error(<<"Quota", "exceeded">>)
  /\ status = 200
  /\ headersSent
  /\ Len(written) = 1
  /\ IsError(written[1])

\* C37: a request whose upstream event stream has terminated, by returning
\* or by throwing, gets its response ended; whenever the handler is done,
\* after the 501 reply, a stream that ended normally, an error before the
\* headers or an error after them, the response has been ended exactly once,
\* it is never ended a second time, and no frame is written once it is ended.
C37_ResponseEndedOnce ==
  /\ [](resEnded <= 1)
  /\ [](pc = "done" <=> resEnded = 1)
  /\ [][resEnded = 1 => (written' = written /\ resEnded' = resEnded)]_vars
  /\ (srcState \in {"closed", "errored"}) ~> (pc = "done" /\ resEnded = 1)

\* The upstream stream threw after a frame had been written and the
\* response was ended, once, by the catch block.
C37_Witness ==
  /\ srcState = "errored"
  /\ pc = "done"
  /\ resEnded = 1
  /\ Len(written) = 2
  /\ IsContentChunk(written[1])
  /\ IsError(written[2])

\* C38: when the upstream stream has yielded events and then failed, every
\* one of the events has been through the transformer and every frame made
\* from them has been written, in order, before the error event, which is
\* the last frame: nothing is lost between the source, the transformer and
\* the response.
C38_NoEventLostBeforeError ==
  (pc = "done" /\ srcState = "errored") =>
    /\ consumed = Len(events)
    /\ Len(written) = Len(emitted) + 1
    /\ SubSeq(written, 1, Len(emitted)) = emitted
    /\ IsError(LastWritten)

IsIgnorable(e) == e.type = "reasoning"

\* The frames written that were made from an event that satisfies Test.
WrittenFrom(Test(_)) ==
  {i \in 1..Len(written) : written[i].src # 0 /\ Test(events[written[i].src])}

\* C22: no frame the transformer puts out, and so none written, was made
\* from an ignorable event; and a stream that ended normally has written as
\* many frames as its text-delta and tool-call events gave rise to (one per
\* text delta that produced a chunk, two per tool call), plus the finish
\* chunk and [DONE].
C22_IgnorableEventsSilent ==
  /\ \A s \in 1..Len(events) : IsIgnorable(events[s]) => FramesOf(s) = {}
  /\ WrittenFrom(IsIgnorable) = {}
  /\ EndedNormally =>
       /\ Len(written) = Cardinality(WrittenFrom(IsTextDelta))
                           + Cardinality(WrittenFrom(IsToolCall)) + 2
       /\ Len(written) = Count(events, IsNonEmptyText) + 2 * Count(events, IsToolCall) + 2

\* A stream of an ignorable event, a text delta and a tool call, the
\* ignorable one first, has ended normally with five frames written.
C22_Witness ==
  /\ EndedNormally
  /\ Len(events) = 3
  /\ IsIgnorable(events[1])
  /\ Count(events, IsNonEmptyText) = 1
  /\ Count(events, IsToolCall) = 1
  /\ Len(written) = 5

\* ------------------------------------------ two responses at once

Responses == {1, 2}

\* The events the two streams are made of.
PairChunks == {TextEvent("a"), ToolEvent(<<"f">>, ArgsEmpty), ReasoningEvent}

\* The clock readings.
Seconds == {100, 101}

NoChatID == <<>>

\* A frame as it goes out: a chunk holds the id and created fields that
\* createChunk fills from chatID and creationTime; the sentinel holds none.
OpenAIChunk(frame, chatID, creationTime) ==
  IF frame.kind = "chunk"
    THEN [frame |-> frame, id |-> chatID, created |-> creationTime]
    ELSE [frame |-> frame, id |-> NoChatID, created |-> 0]

\* Every frame of frames, as it goes out of a transformer.
chunksOf(frames, chatID, creationTime) ==
  [i \in 1..Len(frames) |-> OpenAIChunk(frames[i], chatID, creationTime)]

NewResponse == [state |-> "none", closure |-> 0, events |-> <<>>, out |-> <<>>]

IdlePair ==
  /\ responses = [r \in Responses |-> [NewResponse EXCEPT !.state = "never"]]
  /\ closures = <<>>
  /\ pairUuids = 0
  /\ now = 100

InitPair ==
  /\ responses = [r \in Responses |-> NewResponse]
  /\ closures = <<>>
  /\ pairUuids = 0
  /\ now = 100

\* Transformer variables kept at module level: one set for every response.
moduleLevel(r) == 1

\* The variables of createOpenAIStreamTransformer are locals of the call:
\* the transformer of response r has its own.
closureOf(r) == r

\* createOpenAIStreamTransformer(body.model) for response r.
createOpenAIStreamTransformer(r) ==
  /\ responses[r].state = "none"
  /\ LET c == closureOf(r)
     IN /\ closures' = [k \in DOMAIN closures \cup {c} |->
                          IF k = c
                            THEN [chatID |-> <<"chatcmpl-">> \o randomUUID(pairUuids),
                                  creationTime |-> now,
                                  isFirstChunk |-> TRUE,
                                  toolCallIndex |-> 0]
                            ELSE closures[k]]
        /\ responses' = [responses EXCEPT ![r] = [@ EXCEPT !.state = "open", !.closure = c]]
  /\ pairUuids' = pairUuids + 1
  /\ UNCHANGED now
  /\ UNCHANGED notPair

\* The model yields event e on response r and transform() runs on it.
PairTransform(r, e) ==
  /\ responses[r].state = "open"
  /\ Len(responses[r].events) < MaxPairEvents
  /\ LET c == responses[r].closure
         src == Len(responses[r].events) + 1
         id == toolCallId(e.name, randomUUID(pairUuids))
         frames == transform(<<>>, e, src, closures[c].isFirstChunk,
                             closures[c].toolCallIndex, id)
     IN /\ responses' = [responses EXCEPT ![r] =
              [@ EXCEPT !.events = Append(@, e),
                        !.out = @ \o chunksOf(frames, closures[c].chatID,
                                              closures[c].creationTime)]]
        /\ closures' = [closures EXCEPT ![c] =
              [@ EXCEPT !.isFirstChunk = FALSE,
                        !.toolCallIndex = toolCallIndexAfter(e, @)]]
  /\ pairUuids' = IF e.type = "tool_code" THEN pairUuids + 1 ELSE pairUuids
  /\ UNCHANGED now
  /\ UNCHANGED notPair

\* The stream of response r ends and flush() runs.
PairFlush(r) ==
  /\ responses[r].state = "open"
  /\ LET c == responses[r].closure
     IN responses' = [responses EXCEPT ![r] =
          [@ EXCEPT !.state = "closed",
                    !.out = @ \o chunksOf(flush(<<>>, closures[c].toolCallIndex),
                                          closures[c].chatID, closures[c].creationTime)]]
  /\ UNCHANGED <<closures, pairUuids, now>>
  /\ UNCHANGED notPair

\* A second passes.
Tick ==
  /\ now + 1 \in Seconds
  /\ now' = now + 1
  /\ UNCHANGED <<responses, closures, pairUuids>>
  /\ UNCHANGED notPair

NextPair ==
  \/ \E r \in Responses : createOpenAIStreamTransformer(r)
  \/ \E r \in Responses, e \in PairChunks : PairTransform(r, e)
  \/ \E r \in Responses : PairFlush(r)
  \/ Tick

\* The tool-call events among the first n events of response r.
OwnToolCalls(r, n) == {s \in 1..n : IsToolCall(responses[r].events[s])}

\* The positions of the chunks in what response r has put out.
ChunksOut(r) == {i \in 1..Len(responses[r].out) : responses[r].out[i].frame.kind = "chunk"}

\* C25: whatever the other response has done, in each response the chunks
\* of a tool call carry as index the number of that response's own earlier
\* tool calls; the role is on the frames of the response's own first event
\* and on no other, and is there when that event is a tool call or a text;
\* the frames are those of the response's own events (one per text, two per
\* tool call, none for a reasoning event, the finish chunk and [DONE] once
\* closed); the finish_reason is tool_calls exactly when the response itself
\* had a tool call; and all chunks of the response carry one id and one
\* created value, the id being different from the other response's.
C25_ResponsesIndependent ==
  \A r \in Responses :
    LET out == responses[r].out
        evs == responses[r].events
    IN /\ \A i \in ChunksOut(r) :
            /\ \A k \in 1..Len(out[i].frame.delta.tool_calls) :
                 out[i].frame.delta.tool_calls[k].index
                   = Cardinality(OwnToolCalls(r, out[i].frame.src - 1))
            /\ out[i].frame.delta.role => out[i].frame.src = 1
            /\ \A j \in ChunksOut(r) :
                 /\ out[i].id = out[j].id
                 /\ out[i].created = out[j].created
            /\ \A q \in Responses \ {r} : \A j \in ChunksOut(q) :
                 out[i].id # responses[q].out[j].id
       /\ (Len(evs) > 0 /\ ContentBearing(evs[1])) => out[1].frame.delta.role
       /\ Len(out) = Count(evs, IsNonEmptyText) + 2 * Count(evs, IsToolCall)
                     + (IF responses[r].state = "closed" THEN 2 ELSE 0)
       /\ responses[r].state = "closed" =>
            /\ out[Len(out)].frame = DoneFrame
            /\ out[Len(out) - 1].frame.finish_reason
                 = (IF OwnToolCalls(r, Len(evs)) # {} THEN "tool_calls" ELSE "stop")

\* Both responses are closed; the first had a tool call, then the second
\* (opened a second later) had one, then the first had another; the second
\* response started with a text.
C25_Witness ==
  /\ responses[1].state = "closed"
  /\ responses[2].state = "closed"
  /\ responses[1].events = <<ToolEvent(<<"f">>, ArgsEmpty), ToolEvent(<<"f">>, ArgsEmpty)>>
  /\ responses[2].events = <<TextEvent("a"), ToolEvent(<<"f">>, ArgsEmpty)>>
  /\ responses[1].out[1].frame.delta.tool_calls[1].id = toolCallId(<<"f">>, randomUUID(2))
  /\ responses[2].out[2].frame.delta.tool_calls[1].id = toolCallId(<<"f">>, randomUUID(3))
  /\ responses[1].out[3].frame.delta.tool_calls[1].id = toolCallId(<<"f">>, randomUUID(4))
  /\ responses[1].out[1].created # responses[2].out[1].created

\* ------------------------------------------- the tool-call id round trip

\* Every function name of at most MaxNameLen characters.
FunctionNames == UNION {[1..n -> NameChars] : n \in 0..MaxNameLen}

\* The UUIDs drawn in the round trip.
UuidDraws == {0, 7, 42}

IdleId ==
  /\ idPc = "idle"
  /\ idName = <<>>
  /\ idUuid = 0
  /\ idCall = <<>>
  /\ idParsed = <<>>

InitId ==
  /\ idPc = "new"
  /\ idName \in FunctionNames
  /\ idUuid \in UuidDraws
  /\ idCall = <<>>
  /\ idParsed = <<>>

\* The transformer's tool_code case makes the id of the call.
GenerateId ==
  /\ idPc = "new"
  /\ idCall' = toolCallId(idName, randomUUID(idUuid))
  /\ idPc' = "generated"
  /\ UNCHANGED <<idName, idUuid, idParsed>>
  /\ UNCHANGED notId

\* A later tool-result message carries the id: openAIMessageToGemini parses it.
ParseId ==
  /\ idPc = "generated"
  /\ idParsed' = parseFunctionNameFromId(idCall)
  /\ idPc' = "parsed"
  /\ UNCHANGED <<idName, idUuid, idCall>>
  /\ UNCHANGED notId

NextId == GenerateId \/ ParseId

\* C7: the id generated for a function name parses back to exactly that
\* name, for every name, those with underscores (leading, trailing, doubled)
\* and the empty one included.
C7_IdRoundTrip == idPc = "parsed" => idParsed = idName

\* A name with an underscore inside went through generation and parsing.
C7_Witness ==
  /\ idPc = "parsed"
  /\ idName = <<"a", Underscore, "b">>
  /\ idParsed = idName
  /\ Len(split(idCall)) = 4

\* ------------------------------------------------ the MCP session registry

\* Requests the /mcp endpoint receives.
MaxReqs == 3

Reqs == 1..MaxReqs

\* toolRegistry.getAllTools(): the names of the tools a new server registers.
AllTools == {"read_file", "google_web_search"}

\* The header value of a request without Mcp-Session-Id.
NoSession == 0

NoBody == [shape |-> "none", jsonrpc |-> "", code |-> 0, message |-> "", id |-> ""]

\* {jsonrpc: '2.0', error: {code: -32000, message: ...}, id: null}
MissingSessionBody ==
  [shape |-> "jsonrpc-error", jsonrpc |-> "2.0", code |-> -32000,
   message |-> "Bad Request: Mcp-Session-Id header is required", id |-> "null"]

\* {error: 'Failed to create session'}
CreateFailedBody ==
  [shape |-> "error", jsonrpc |-> "", code |-> 0,
   message |-> "Failed to create session", id |-> ""]

\* What the transport itself answers (the handshake response, a call's
\* result or error, its own rejection).
TransportBody(what) ==
  [shape |-> "transport", jsonrpc |-> "2.0", code |-> 0, message |-> what, id |-> "request"]

NewReq ==
  [pc |-> "new", header |-> NoSession, kind |-> "none", server |-> 0, transport |-> 0,
   status |-> 0, body |-> NoBody, handledBy |-> 0, sid |-> 0, executes |-> 0]

IdleMcp ==
  /\ sessions = <<>>
  /\ servers = <<>>
  /\ transports = <<>>
  /\ reqs = [r \in Reqs |-> [NewReq EXCEPT !.pc = "never"]]

InitMcp ==
  /\ sessions = <<>>
  /\ servers = <<>>
  /\ transports = <<>>
  /\ reqs = [r \in Reqs |-> NewReq]

\* The payloads: an initialize message, or any other message (a tool call).
Kinds == {"initialize", "tools/call"}

\* A predicate that takes every payload for an initialize message.
isInitializeRequestAlways(kind) == TRUE

\* isInitializeRequest(req.body)
isInitializeRequest(kind) == kind = "initialize"

\* A lookup that falls back to some live session when the id is not known.
lookupOrAny(sess, sessionId) ==
  IF sessionId # NoSession /\ sessionId \in DOMAIN sess THEN sessionId
  ELSE IF DOMAIN sess # {} THEN CHOOSE k \in DOMAIN sess : TRUE
  ELSE NoSession

\* A lookup that never finds a session.
lookupMiss(sess, sessionId) == NoSession

\* sessionId ? this.sessions[sessionId] : undefined, as the key found (NoSession: undefined).
lookup(sess, sessionId) ==
  IF sessionId # NoSession /\ sessionId \in DOMAIN sess THEN sessionId ELSE NoSession

\* Object identities and UUIDs are numbers. Request r draws at most three:
\* its McpServer (3r-2), its transport (3r-1) and, from sessionIdGenerator,
\* its session id (3r), so that no two draws ever agree.
InstanceId(r, k) == 3 * (r - 1) + k

\* sessionIdGenerator: () => randomUUID(), drawn while request r is handled.
randomSessionId(r) == InstanceId(r, 3)

\* A generator that takes the id the request came with when there is one.
sessionIdFromHeader(r, sessionId) ==
  IF sessionId # NoSession THEN sessionId ELSE randomSessionId(r)

\* The generator the transport of request r is made with: it does not look
\* at the Mcp-Session-Id header of the request.
sessionIdGenerator(r, sessionId) == randomSessionId(r)

\* A bridge with one McpServer for all sessions.
sharedMcpServer(n) == 1

\* new McpServer(...): a new instance each time.
newMcpServer(n) == n

\* A callback that files the pair under the transport instead of the session id.
onsessioninitializedWrongKey(sess, newSessionId, srv, t) ==
  [k \in DOMAIN sess \cup {t} |->
     IF k = t THEN [mcpServer |-> srv, transport |-> t] ELSE sess[k]]

\* onsessioninitialized: this.sessions[newSessionId] = {mcpServer, transport}
onsessioninitialized(sess, newSessionId, srv, t) ==
  [k \in DOMAIN sess \cup {newSessionId} |->
     IF k = newSessionId THEN [mcpServer |-> srv, transport |-> t] ELSE sess[k]]

\* A close callback that leaves the entry in the map.
oncloseKeepsEntry(sess, sid) == sess

\* A close callback that empties the whole map.
oncloseClearsAll(sess, sid) == <<>>

\* newTransport.onclose: if (sid && this.sessions[sid]) delete this.sessions[sid]
onclose(sess, sid) ==
  IF sid # NoSession /\ sid \in DOMAIN sess
    THEN [k \in DOMAIN sess \ {sid} |-> sess[k]]
    ELSE sess

\* A tool-call failure that tears the session of the call down.
toolFailureDropsSessions(sess) == <<>>

\* The tool callback's catch block logs and rethrows: the registry is not touched.
toolFailure(sess) == sess

\* The handler from the header lookup to its first await. A known session id:
\* the request goes to that session's transport. No session and an initialize
\* payload: createNewMcpServer() is awaited. No session otherwise: 400.
Arrive(r, hdr, kind) ==
  /\ reqs[r].pc = "new"
  /\ r > 1 => reqs[r - 1].pc # "new"
  /\ LET found == lookup(sessions, hdr)
         arrived == [reqs[r] EXCEPT !.header = hdr, !.kind = kind]
     IN IF found # NoSession
          THEN reqs' = [reqs EXCEPT ![r] =
                 [arrived EXCEPT !.pc = "handling",
                                 !.server = sessions[found].mcpServer,
                                 !.transport = sessions[found].transport,
                                 !.handledBy = sessions[found].transport]]
          ELSE IF isInitializeRequest(kind)
            THEN reqs' = [reqs EXCEPT ![r] = [arrived EXCEPT !.pc = "creating"]]
            ELSE reqs' = [reqs EXCEPT ![r] =
                   [arrived EXCEPT !.pc = "done", !.status = 400,
                                   !.body = MissingSessionBody]]
  /\ UNCHANGED <<sessions, servers, transports>>
  /\ UNCHANGED notMcp

\* createNewMcpServer() resolves: the server holds a snapshot of the tools;
\* the transport is made with its callbacks and connect() is awaited.
CreateServerDone(r) ==
  /\ reqs[r].pc = "creating"
  /\ LET srv == newMcpServer(InstanceId(r, 1))
         t == InstanceId(r, 2)
     IN /\ servers' = [k \in DOMAIN servers \cup {srv} |->
                         IF k = srv THEN [tools |-> AllTools] ELSE servers[k]]
        /\ transports' = [k \in DOMAIN transports \cup {t} |->
                         IF k = t
                           THEN [sessionId |-> NoSession, initialized |-> FALSE,
                                 closed |-> FALSE, server |-> srv]
                           ELSE transports[k]]
        /\ reqs' = [reqs EXCEPT ![r] =
                      [@ EXCEPT !.pc = "connecting", !.server = srv, !.transport = t]]
  /\ UNCHANGED sessions
  /\ UNCHANGED notMcp

\* A catch block that leaves an entry for the session that was being made.
creationFailureLeavesEntry(sess, r) ==
  [k \in DOMAIN sess \cup {randomSessionId(r)} |->
     IF k = randomSessionId(r)
       THEN [mcpServer |-> InstanceId(r, 1), transport |-> InstanceId(r, 2)]
       ELSE sess[k]]

\* this.sessions after the catch block of the creation: it logs and answers,
\* and the map is not touched.
creationFailure(sess, r) == sess

\* createNewMcpServer() rejects: the catch block answers 500.
CreateServerFails(r) ==
  /\ reqs[r].pc = "creating"
  /\ reqs' = [reqs EXCEPT ![r] =
                [@ EXCEPT !.pc = "done", !.status = 500, !.body = CreateFailedBody]]
  /\ sessions' = creationFailure(sessions, r)
  /\ UNCHANGED <<servers, transports>>
  /\ UNCHANGED notMcp

\* connect() resolves: session = {mcpServer, transport}; the request is handed
\* to the new transport.
ConnectDone(r) ==
  /\ reqs[r].pc = "connecting"
  /\ reqs' = [reqs EXCEPT ![r] = [@ EXCEPT !.pc = "handling", !.handledBy = reqs[r].transport]]
  /\ UNCHANGED <<sessions, servers, transports>>
  /\ UNCHANGED notMcp

\* connect() rejects: the catch block answers 500.
ConnectFails(r) ==
  /\ reqs[r].pc = "connecting"
  /\ reqs' = [reqs EXCEPT ![r] =
                [@ EXCEPT !.pc = "done", !.status = 500, !.body = CreateFailedBody]]
  /\ sessions' = creationFailure(sessions, r)
  /\ UNCHANGED <<servers, transports>>
  /\ UNCHANGED notMcp

\* transport.handleRequest on an initialize message. A transport not yet
\* initialized draws its session id from sessionIdGenerator and calls
\* onsessioninitialized with it; an initialized one rejects the message.
HandleInitialize(r) ==
  /\ reqs[r].pc = "handling"
  /\ reqs[r].kind = "initialize"
  /\ LET t == reqs[r].handledBy
         sid == sessionIdGenerator(r, reqs[r].header)
     IN IF transports[t].initialized
          THEN /\ reqs' = [reqs EXCEPT ![r] =
                     [@ EXCEPT !.pc = "done", !.status = 400,
                               !.body = TransportBody("already initialized")]]
               /\ UNCHANGED <<sessions, transports>>
          ELSE /\ transports' = [transports EXCEPT ![t].sessionId = sid,
                                                   ![t].initialized = TRUE]
               /\ sessions' = onsessioninitialized(sessions, sid, reqs[r].server,
                                                   reqs[r].transport)
               /\ reqs' = [reqs EXCEPT ![r] =
                     [@ EXCEPT !.pc = "done", !.status = 200, !.sid = sid,
                               !.body = TransportBody("initialized")]]
  /\ UNCHANGED servers
  /\ UNCHANGED notMcp

\* transport.handleRequest on a tool call: the tool's execute runs once and
\* returns or throws; a throw is rethrown to the SDK, which answers the call
\* with an error.
HandleCall(r, ok) ==
  /\ reqs[r].pc = "handling"
  /\ reqs[r].kind = "tools/call"
  /\ reqs' = [reqs EXCEPT ![r] =
                [@ EXCEPT !.pc = "done", !.status = 200, !.executes = @ + 1,
                          !.body = TransportBody(IF ok THEN "result" ELSE "tool error")]]
  /\ sessions' = IF ok THEN sessions ELSE toolFailure(sessions)
  /\ UNCHANGED <<servers, transports>>
  /\ UNCHANGED notMcp

\* transport.handleRequest rejects: res.status(500).end()
HandleThrows(r) ==
  /\ reqs[r].pc = "handling"
  /\ reqs' = [reqs EXCEPT ![r] = [@ EXCEPT !.pc = "done", !.status = 500]]
  /\ UNCHANGED <<sessions, servers, transports>>
  /\ UNCHANGED notMcp

\* The transport of a session closes: onclose runs.
TransportClose(t) ==
  /\ t \in DOMAIN transports
  /\ transports[t].initialized
  /\ ~transports[t].closed
  /\ transports' = [transports EXCEPT ![t].closed = TRUE]
  /\ sessions' = onclose(sessions, transports[t].sessionId)
  /\ UNCHANGED <<servers, reqs>>
  /\ UNCHANGED notMcp

\* The session ids the transports have drawn so far, of live and closed sessions.
IssuedSessionIds ==
  {transports[t].sessionId : t \in DOMAIN transports} \ {NoSession}

\* A session id the bridge never issued: it is above every id a request draws.
ForeignSessionId == InstanceId(MaxReqs, 3) + 1

\* The header values requests arrive with: none, the id of a live or of a
\* closed session, or an id that no session ever had.
Headers == {NoSession, ForeignSessionId} \cup IssuedSessionIds

NextMcp ==
  \/ \E r \in Reqs, hdr \in Headers, kind \in Kinds : Arrive(r, hdr, kind)
  \/ \E r \in Reqs : CreateServerDone(r)
  \/ \E r \in Reqs : CreateServerFails(r)
  \/ \E r \in Reqs : ConnectDone(r)
  \/ \E r \in Reqs : ConnectFails(r)
  \/ \E r \in Reqs : HandleInitialize(r)
  \/ \E r \in Reqs, ok \in BOOLEAN : HandleCall(r, ok)
  \/ \E r \in Reqs : HandleThrows(r)
  \/ \E t \in DOMAIN transports : TransportClose(t)

\* ------------------------------------------- properties of the registry

\* The initialize requests whose handling made a session.
Established == {r \in Reqs : reqs[r].sid # NoSession}

\* The session of request r is live: its transport has not closed.
Live(r) == ~transports[reqs[r].transport].closed

\* C8: two initialize requests, however their asynchronous steps interleave,
\* end with two distinct session ids whose tool-server and protocol-handler
\* instances differ; and whatever happens in one session (a failing tool
\* execution included), the entry of every other live session still holds
\* that session's own server and transport, and the server its tools.
C8_SessionsIsolated ==
  /\ \A r1, r2 \in Established :
       r1 # r2 =>
         /\ reqs[r1].sid # reqs[r2].sid
         /\ reqs[r1].server # reqs[r2].server
         /\ reqs[r1].transport # reqs[r2].transport
  /\ \A r \in Established :
       Live(r) =>
         /\ reqs[r].sid \in DOMAIN sessions
         /\ sessions[reqs[r].sid] =
              [mcpServer |-> reqs[r].server, transport |-> reqs[r].transport]
         /\ servers[reqs[r].server].tools = AllTools

\* Two sessions are live and a tool call has failed in one of them.
C8_Witness ==
  \E r1, r2, r3 \in Reqs :
    /\ r1 # r2
    /\ {r1, r2} \subseteq Established
    /\ Live(r1) /\ Live(r2)
    /\ reqs[r3].pc = "done"
    /\ reqs[r3].body = TransportBody("tool error")
    /\ reqs[r3].handledBy = reqs[r1].transport
    /\ DOMAIN sessions = {reqs[r1].sid, reqs[r2].sid}

\* C9: a request whose session id is absent or not in the session map and
\* whose payload is not an initialize message is answered, in the step that
\* receives it, with 400 and the JSON-RPC error body; it is handed to no
\* transport, and sessions, servers and transports stay as they were.
C9_MissingSessionRejected ==
  [][\A r \in Reqs :
       ( /\ reqs[r].pc = "new"
         /\ reqs'[r].pc # "new"
         /\ reqs'[r].header = NoSession \/ reqs'[r].header \notin DOMAIN sessions
         /\ reqs'[r].kind # "initialize" )
       => /\ reqs'[r].pc = "done"
          /\ reqs'[r].status = 400
          /\ reqs'[r].body = MissingSessionBody
          /\ reqs'[r].handledBy = 0
          /\ sessions' = sessions
          /\ servers' = servers
          /\ transports' = transports]_vars

\* A tool call that carried the id of a closed session was answered 400
\* while another session was live.
C9_Witness ==
  \E r \in Reqs :
    /\ reqs[r].pc = "done"
    /\ reqs[r].kind = "tools/call"
    /\ reqs[r].status = 400
    /\ reqs[r].body = MissingSessionBody
    /\ reqs[r].header \in IssuedSessionIds
    /\ reqs[r].header \notin DOMAIN sessions
    /\ DOMAIN sessions # {}

\* C10: every entry of the session map is keyed by the session id of its own
\* transport, which is initialized, open and connected to the entry's server;
\* it was stored while an initialize request was handled by that transport,
\* and that request was answered 200; no two entries share a transport or a
\* server.
C10_SessionMapInvariant ==
  /\ \A k \in DOMAIN sessions :
       LET e == sessions[k]
       IN /\ e.transport \in DOMAIN transports
          /\ e.mcpServer \in DOMAIN servers
          /\ transports[e.transport].sessionId = k
          /\ transports[e.transport].initialized
          /\ ~transports[e.transport].closed
          /\ transports[e.transport].server = e.mcpServer
          /\ \E r \in Reqs :
               /\ reqs[r].kind = "initialize"
               /\ reqs[r].pc = "done"
               /\ reqs[r].status = 200
               /\ reqs[r].sid = k
               /\ reqs[r].handledBy = e.transport
  /\ \A k1, k2 \in DOMAIN sessions :
       k1 # k2 =>
         /\ sessions[k1].transport # sessions[k2].transport
         /\ sessions[k1].mcpServer # sessions[k2].mcpServer

\* Two sessions are in the map and a third one has been closed and removed.
C10_Witness ==
  /\ Cardinality(DOMAIN sessions) = 2
  /\ \E t \in DOMAIN transports :
       /\ transports[t].closed
       /\ transports[t].sessionId \notin DOMAIN sessions

\* Request r is received in this step: the handler runs from the header
\* lookup to its first await or to its answer.
Arrives(r) == reqs[r].pc = "new" /\ reqs'[r].pc # "new"

\* C11: a request whose session id is a key of the session map is handed, in
\* the step that receives it and whatever its payload, to the transport stored
\* under that id, which is the transport that issued the id; sessions,
\* servers and transports are the same after the step as before it.
C11_KnownSessionForwarded ==
  [][\A r \in Reqs :
       ( /\ Arrives(r)
         /\ reqs'[r].header # NoSession
         /\ reqs'[r].header \in DOMAIN sessions )
       => /\ reqs'[r].pc = "handling"
          /\ reqs'[r].handledBy = sessions[reqs'[r].header].transport
          /\ reqs'[r].server = sessions[reqs'[r].header].mcpServer
          /\ transports[reqs'[r].handledBy].sessionId = reqs'[r].header
          /\ reqs'[r].status = 0
          /\ sessions' = sessions
          /\ servers' = servers
          /\ transports' = transports]_vars

\* An initialize message and a tool call both carried the id of the same live
\* session and were both handed to its transport.
C11_Witness ==
  \E r1, r2 \in Reqs :
    /\ reqs[r1].kind = "initialize"
    /\ reqs[r2].kind = "tools/call"
    /\ reqs[r1].header # NoSession
    /\ reqs[r1].header = reqs[r2].header
    /\ reqs[r1].header \in DOMAIN sessions
    /\ reqs[r1].handledBy = sessions[reqs[r1].header].transport
    /\ reqs[r2].handledBy = reqs[r1].handledBy
    /\ Cardinality(DOMAIN servers) = 1

\* The transport t closes in this step.
Closes(t) == ~transports[t].closed /\ transports'[t].closed

\* The session ids of the transports that have closed.
ClosedSessionIds ==
  {transports[t].sessionId : t \in {u \in DOMAIN transports : transports[u].closed}}

\* C12: the step in which a session's transport closes removes the session's
\* entry from the map; the entry never comes back; and every non-initialize
\* request received afterwards with that session id is answered 400 with the
\* missing-session error.
C12_ClosedSessionRemoved ==
  /\ [](ClosedSessionIds \cap DOMAIN sessions = {})
  /\ [][/\ \A t \in DOMAIN transports :
             Closes(t) => transports[t].sessionId \notin DOMAIN sessions'
        /\ \A r \in Reqs :
             ( /\ Arrives(r)
               /\ reqs'[r].header \in ClosedSessionIds
               /\ reqs'[r].kind # "initialize" )
             => /\ reqs'[r].pc = "done"
                /\ reqs'[r].status = 400
                /\ reqs'[r].body = MissingSessionBody
                /\ reqs'[r].handledBy = 0]_vars

\* A session took a tool call, then closed, and a later tool call with its id
\* was answered 400.
C12_Witness ==
  \E t \in DOMAIN transports : \E r1, r2 \in Reqs :
    /\ transports[t].closed
    /\ r1 < r2
    /\ reqs[r1].header = transports[t].sessionId
    /\ reqs[r1].handledBy = t
    /\ reqs[r1].body = TransportBody("result")
    /\ reqs[r2].header = transports[t].sessionId
    /\ reqs[r2].kind = "tools/call"
    /\ reqs[r2].status = 400
    /\ reqs[r2].body = MissingSessionBody

\* The entry under key k is not the same after the step as before it: it was
\* added, removed or replaced.
EntryChanges(k) ==
  \/ k \in DOMAIN sessions /\ k \notin DOMAIN sessions'
  \/ k \notin DOMAIN sessions /\ k \in DOMAIN sessions'
  \/ k \in DOMAIN sessions /\ k \in DOMAIN sessions' /\ sessions'[k] # sessions[k]

\* The step belongs to the session with id k: it is the handshake that
\* issues k and stores the issuing request's own pair, or it is the close of
\* the transport that issued k.
StepOfSession(k) ==
  \/ \E r \in Reqs :
       /\ reqs[r].sid = NoSession
       /\ reqs'[r].sid = k
       /\ k \notin DOMAIN sessions
       /\ sessions'[k] = [mcpServer |-> reqs[r].server, transport |-> reqs[r].transport]
  \/ \E t \in DOMAIN transports :
       /\ transports[t].sessionId = k
       /\ Closes(t)
       /\ k \notin DOMAIN sessions'

\* C13: under every interleaving of the handshake, request and close steps of
\* up to MaxReqs requests, a step changes the map entry of a session only when
\* it is that session's own handshake or close, no entry is ever replaced,
\* and a request handed to the transport of an established session carries
\* that session's id.
C13_NoCrossSessionInterference ==
  /\ [][\A k \in DOMAIN sessions \cup DOMAIN sessions' :
          EntryChanges(k) => StepOfSession(k)]_vars
  /\ [](\A r \in Reqs, a \in Established :
          (a # r /\ reqs[r].handledBy = reqs[a].transport)
          => reqs[r].header = reqs[a].sid)

\* Two sessions were established; the earlier one closed while
\* the other, still in the map, took a tool call.
C13_Witness ==
  \E a, b \in Established : \E r \in Reqs :
    /\ a < b
    /\ transports[reqs[a].transport].closed
    /\ Live(b)
    /\ DOMAIN sessions = {reqs[b].sid}
    /\ reqs[r].header = reqs[b].sid
    /\ reqs[r].handledBy = reqs[b].transport
    /\ reqs[r].pc = "done"

\* The tool call of request r ends with an error in this step.
CallFails(r) ==
  /\ reqs[r].pc = "handling"
  /\ reqs'[r].pc = "done"
  /\ reqs'[r].body = TransportBody("tool error")

\* The requests with the header h whose tool call has failed.
FailedCalls(h) ==
  {q \in Reqs : /\ reqs[q].pc = "done"
                /\ reqs[q].header = h
                /\ reqs[q].body = TransportBody("tool error")}

\* C14: the step in which a tool's execute raises answers that call with an
\* error and changes nothing else: the session map, the servers, the
\* transports and every other request stay as they were; and a request
\* received later with the id of that session, while its transport is open,
\* is handed to that session's transport.
C14_ToolFailureKeepsSession ==
  [][/\ \A r \in Reqs :
          CallFails(r)
          => /\ sessions' = sessions
             /\ servers' = servers
             /\ transports' = transports
             /\ \A q \in Reqs \ {r} : reqs'[q] = reqs[q]
             /\ (~transports[reqs[r].handledBy].closed
                 => /\ reqs[r].header \in DOMAIN sessions'
                    /\ sessions'[reqs[r].header].transport = reqs[r].handledBy)
     /\ \A r \in Reqs :
          ( /\ Arrives(r)
            /\ FailedCalls(reqs'[r].header) # {}
            /\ \E q \in FailedCalls(reqs'[r].header) :
                 ~transports[reqs[q].handledBy].closed )
          => /\ reqs'[r].pc = "handling"
             /\ \A q \in FailedCalls(reqs'[r].header) :
                  reqs'[r].handledBy = reqs[q].handledBy]_vars

\* A tool call failed in a session and a later tool call with the same id was
\* handed to the same transport and returned a result.
C14_Witness ==
  \E q, r \in Reqs :
    /\ q < r
    /\ reqs[q].body = TransportBody("tool error")
    /\ reqs[q].executes = 1
    /\ reqs[r].header = reqs[q].header
    /\ reqs[r].handledBy = reqs[q].handledBy
    /\ reqs[r].body = TransportBody("result")
    /\ reqs[q].header \in DOMAIN sessions

\* The step in which the creation of request r's session fails.
CreationFails(r) ==
  /\ reqs[r].pc \in {"creating", "connecting"}
  /\ reqs'[r].pc = "done"

\* A step of request r on its way through the creation of a session.
CreationStep(r) ==
  /\ reqs'[r] # reqs[r]
  /\ \/ reqs'[r].pc \in {"creating", "connecting"}
     \/ CreationFails(r)

\* The requests answered by the catch block of the creation.
CreationFailed == {r \in Reqs : reqs[r].pc = "done" /\ reqs[r].body = CreateFailedBody}

\* C24: a request whose session creation failed, in createNewMcpServer or in
\* connect, was an initialize request, is answered 500, was handed to no
\* transport, and no entry of the session map holds the server or the
\* transport made for it; and no step of the request, from its arrival to
\* the failure, changes the session map or another request.
C24_CreationFailureIs500 ==
  /\ [](\A r \in CreationFailed :
         /\ reqs[r].kind = "initialize"
         /\ reqs[r].status = 500
         /\ reqs[r].handledBy = 0
         /\ \A k \in DOMAIN sessions :
              /\ sessions[k].transport # InstanceId(r, 2)
              /\ sessions[k].mcpServer # InstanceId(r, 1))
  /\ [][\A r \in Reqs :
          /\ CreationStep(r) =>
               /\ sessions' = sessions
               /\ \A q \in Reqs \ {r} : reqs'[q] = reqs[q]
          /\ CreationFails(r) =>
               /\ reqs'[r].status = 500
               /\ reqs'[r].body = CreateFailedBody
               /\ reqs'[r].handledBy = 0]_vars

\* With a session established, one initialize request failed in
\* createNewMcpServer and another in connect, and the session is still there.
C24_Witness ==
  \E q, r \in CreationFailed :
    /\ reqs[q].transport = 0
    /\ reqs[r].transport # 0
    /\ Cardinality(DOMAIN sessions) = 1

\* Request r is an initialize message that came with a session id the map
\* did not know and is on its way through the creation of a session.
InitializesWithUnknownId(r) ==
  /\ reqs[r].kind = "initialize"
  /\ reqs[r].header # NoSession
  /\ \/ reqs[r].pc \in {"creating", "connecting"}
     \/ reqs[r].pc = "handling" /\ reqs[r].handledBy = InstanceId(r, 2)

\* C39: an initialize request that carries a session id the map does not
\* hold (an id never issued, or the id of a closed session) leaves every
\* entry of the map as it is at each of its steps, and when it is answered
\* the map has exactly one more entry, the new server and transport under
\* an id that was never issued before and is not the id of the header; no
\* entry appears under the header's id.
C39_UnknownIdGetsFreshSession ==
  /\ [](\A r \in Reqs :
          (reqs[r].pc = "done" /\ reqs[r].kind = "initialize" /\ reqs[r].sid # NoSession) =>
            reqs[r].sid # reqs[r].header)
  /\ [][\A r \in Reqs :
          (InitializesWithUnknownId(r) /\ reqs'[r] # reqs[r]) =>
            /\ \A k \in DOMAIN sessions : k \in DOMAIN sessions' /\ sessions'[k] = sessions[k]
            /\ reqs[r].header \notin DOMAIN sessions'
            /\ IF reqs'[r].pc = "done" /\ reqs'[r].status = 200
                 THEN /\ DOMAIN sessions' = DOMAIN sessions \cup {reqs'[r].sid}
                      /\ reqs'[r].sid \notin DOMAIN sessions
                      /\ reqs'[r].sid \notin IssuedSessionIds
                      /\ reqs'[r].sid # reqs[r].header
                      /\ sessions'[reqs'[r].sid] =
                           [mcpServer |-> InstanceId(r, 1), transport |-> InstanceId(r, 2)]
                 ELSE sessions' = sessions]_vars

\* A session was opened and closed; an initialize request that carried its
\* id was answered with a session under another id, while a session opened
\* in between is still in the map.
C39_Witness ==
  \E r \in Reqs :
    /\ reqs[r].pc = "done"
    /\ reqs[r].kind = "initialize"
    /\ reqs[r].status = 200
    /\ reqs[r].header \in IssuedSessionIds
    /\ reqs[r].header \notin DOMAIN sessions
    /\ reqs[r].sid \in DOMAIN sessions
    /\ reqs[r].sid # reqs[r].header
    /\ Cardinality(DOMAIN sessions) = 2

\* ------------------------------------- the payload of a tool-result message

\* The tokens tool-result contents are made of; the JSON texts among them are
\* null, "k", [], [v], {} and {"k":v}.
LBrace == "{"
RBrace == "}"
LBracket == "["
RBracket == "]"
Colon == ":"
NullToken == "null"
StringToken == "\"k\""

JsonTokens == {LBrace, RBrace, LBracket, RBracket, Colon, NullToken, StringToken}

\* msg.content: every sequence of at most MaxContentLen tokens.
Contents == UNION {[1..n -> JsonTokens] : n \in 0..MaxContentLen}

\* JavaScript values: null, a string (its characters or tokens in raw), an
\* array (its elements in kids), an object with at most one property (its
\* name in key, its value in kids).
JNull == [type |-> "null", key |-> "", kids |-> <<>>, raw |-> <<>>]
JString(raw) == [type |-> "string", key |-> "", kids |-> <<>>, raw |-> raw]
JArray(kids) == [type |-> "array", key |-> "", kids |-> kids, raw |-> <<>>]
JObject(key, kids) == [type |-> "object", key |-> key, kids |-> kids, raw |-> <<>>]

Parsed(value, rest) == [ok |-> TRUE, value |-> value, rest |-> rest]
NotParsed == [ok |-> FALSE, value |-> JNull, rest |-> <<>>]

\* One JSON value at the head of the tokens s, and the tokens after it.
RECURSIVE parseValue(_)
parseValue(s) ==
  IF s = <<>> THEN NotParsed
  ELSE IF Head(s) = NullToken THEN Parsed(JNull, Tail(s))
  ELSE IF Head(s) = StringToken THEN Parsed(JString(<<"k">>), Tail(s))
  ELSE IF Head(s) = LBracket THEN
    IF Len(s) >= 2 /\ s[2] = RBracket
      THEN Parsed(JArray(<<>>), SubSeq(s, 3, Len(s)))
      ELSE LET inner == parseValue(Tail(s))
           IN IF inner.ok /\ inner.rest # <<>> /\ Head(inner.rest) = RBracket
                THEN Parsed(JArray(<<inner.value>>), Tail(inner.rest))
                ELSE NotParsed
  ELSE IF Head(s) = LBrace THEN
    IF Len(s) >= 2 /\ s[2] = RBrace
      THEN Parsed(JObject("", <<>>), SubSeq(s, 3, Len(s)))
    ELSE IF Len(s) >= 3 /\ s[2] = StringToken /\ s[3] = Colon
      THEN LET inner == parseValue(SubSeq(s, 4, Len(s)))
           IN IF inner.ok /\ inner.rest # <<>> /\ Head(inner.rest) = RBrace
                THEN Parsed(JObject("k", <<inner.value>>), Tail(inner.rest))
                ELSE NotParsed
    ELSE NotParsed
  ELSE NotParsed

\* JSON.parse(content): the value, or a SyntaxError when the tokens are not
\* exactly one JSON value.
JSONparse(content) ==
  LET r == parseValue(content)
  IN IF r.ok /\ r.rest = <<>>
       THEN [threw |-> FALSE, value |-> r.value]
       ELSE [threw |-> TRUE, value |-> JNull]

\* typeof value
typeof(value) == IF value.type \in {"null", "array", "object"} THEN "object" ELSE value.type

\* Array.isArray(value)
isArray(value) == value.type = "array"

\* { output: value }
wrapOutput(value) == JObject("output", <<value>>)

\* A payload that passes on whatever typeof calls an object.
responsePayloadAnyObject(content) ==
  LET parsed == JSONparse(content)
  IN IF parsed.threw THEN wrapOutput(JString(content))
     ELSE IF typeof(parsed.value) = "object" THEN parsed.value
     ELSE wrapOutput(parsed.value)

\* responsePayload of the tool branch of openAIMessageToGemini.
responsePayload(content) ==
  LET parsed == JSONparse(content)
  IN IF parsed.threw THEN wrapOutput(JString(content))
     ELSE IF typeof(parsed.value) = "object" /\ parsed.value # JNull /\ ~isArray(parsed.value)
       THEN parsed.value
     ELSE wrapOutput(parsed.value)

IdlePayload ==
  /\ plPc = "idle"
  /\ plContent = <<>>
  /\ plPayload = JNull

InitPayload ==
  /\ plPc = "new"
  /\ plContent \in Contents
  /\ plPayload = JNull

\* openAIMessageToGemini on the tool-result message.
TranslateToolMessage ==
  /\ plPc = "new"
  /\ plPayload' = responsePayload(plContent)
  /\ plPc' = "translated"
  /\ UNCHANGED plContent
  /\ UNCHANGED notPayload

NextPayload == TranslateToolMessage

\* C19: the payload of a translated tool-result message is always an object.
\* It is the value the content parses to exactly when the content parses to
\* an object that is neither null nor an array; a content that parses to an
\* array, a string or null is the one property output of the payload; a
\* content that does not parse is, as a string, the one property output.
C19_PayloadIsObject ==
  plPc = "translated" =>
    LET parsed == JSONparse(plContent)
    IN /\ plPayload.type = "object"
       /\ plPayload = parsed.value <=> (~parsed.threw /\ parsed.value.type = "object")
       /\ (~parsed.threw /\ parsed.value.type \in {"array", "string", "null"})
            => /\ plPayload.key = "output"
               /\ plPayload.kids = <<parsed.value>>
       /\ parsed.threw
            => /\ plPayload.key = "output"
               /\ plPayload.kids = <<JString(plContent)>>

\* The content [{}] has been wrapped: an array, though it holds an object.
C19_Witness ==
  /\ plPc = "translated"
  /\ plContent = <<LBracket, LBrace, RBrace, RBracket>>
  /\ plPayload = wrapOutput(JArray(<<JObject("", <<>>)>>))

\* ------------------------------ the model invocation of a chat completion

\* The two requests whose invocations interleave.
ChatReqs == {1, 2}

\* msg.content: a string, null, or an array of content parts.
StringContent(text) == [type |-> "string", text |-> text, parts |-> <<>>]
NullContent == [type |-> "null", text |-> "", parts |-> <<>>]
ArrayContent(parts) == [type |-> "array", text |-> "", parts |-> parts]

\* An OpenAIMessage; a message without tool_calls has none, one without
\* tool_call_id has the empty id.
OpenAIMessage(role, content, tool_calls, tool_call_id) ==
  [role |-> role, content |-> content, tool_calls |-> tool_calls,
   tool_call_id |-> tool_call_id]

\* An OpenAI message with a text content.
Message(role, content) == OpenAIMessage(role, StringContent(content), <<>>, <<>>)

\* The result of a call of the function f, as a tool message.
ToolMessage ==
  OpenAIMessage("tool", StringContent(<<LBrace, RBrace>>), <<>>,
                toolCallId(<<"f">>, randomUUID(7)))

\* The messages request bodies are made of.
Messages ==
  {Message("user", "p"), Message("assistant", "p"), Message("system", "s"), ToolMessage}

\* body.messages: every sequence of at most MaxMsgs messages.
Bodies == UNION {[1..n -> Messages] : n \in 0..MaxMsgs}

\* A Gemini Content with one text part.
Content(role, text) == [role |-> role, parts |-> <<[text |-> text]>>]

\* An OpenAIToolCall; arguments is a sequence of JSON tokens.
ToolCall(id, name, arguments) ==
  [id |-> id, type |-> "function", function |-> [name |-> name, arguments |-> arguments]]

\* A catch block that gives up the parts collected so far.
catchParseErrorClears(parts) == <<>>

\* The catch block around JSON.parse of a tool call's arguments: the error
\* is logged and the parts are left as they are.
catchParseError(parts) == parts

\* The body of the loop over msg.tool_calls, for one tool call.
pushToolCall(parts, call) ==
  IF call.type = "function"
    THEN LET argsObject == JSONparse(call.function.arguments)
         IN IF argsObject.threw
              THEN catchParseError(parts)
              ELSE Append(parts, [functionCall |-> [name |-> call.function.name,
                                                    args |-> argsObject.value]])
    ELSE parts

\* for (const toolCall of msg.tool_calls) { ... }
RECURSIVE pushToolCalls(_, _)
pushToolCalls(parts, tool_calls) ==
  IF tool_calls = <<>>
    THEN parts
    ELSE pushToolCalls(pushToolCall(parts, Head(tool_calls)), Tail(tool_calls))

\* The assistant branch: the text part of a non-empty string content, then
\* the function calls.
assistantParts(msg) ==
  LET text == IF msg.content.type = "string" /\ msg.content.text # ""
                THEN <<[text |-> msg.content.text]>>
                ELSE <<>>
  IN pushToolCalls(text, msg.tool_calls)

\* A name parser that takes the fields of any id for a name.
parseWithoutSentinel(toolCallId_) ==
  LET parts == split(toolCallId_)
  IN join(slice(parts, 1, Len(parts) - 1))

\* The function name of a tool-result message.
functionName(tool_call_id) == parseFunctionNameFromId(tool_call_id)

\* The tool branch: one functionResponse part.
toolParts(msg) ==
  <<[functionResponse |-> [id |-> msg.tool_call_id,
                           name |-> functionName(msg.tool_call_id),
                           response |-> responsePayload(msg.content.text)]]>>

\* String.prototype.split(sep) on a sequence of tokens.
RECURSIVE splitOn(_, _)
splitOn(s, sep) ==
  IF \A i \in 1..Len(s) : s[i] # sep
    THEN <<s>>
    ELSE LET at == CHOOSE i \in 1..Len(s) :
                     s[i] = sep /\ \A j \in 1..(i - 1) : s[j] # sep
         IN <<SubSeq(s, 1, at - 1)>> \o splitOn(SubSeq(s, at + 1, Len(s)), sep)

\* pieces[i] of a split, the empty string past its end.
piece(pieces, i) == IF i <= Len(pieces) THEN pieces[i] ELSE <<>>

\* imageUrl.startsWith('data:')
startsWithData(imageUrl) ==
  Len(imageUrl) >= 2 /\ imageUrl[1] = "data" /\ imageUrl[2] = ":"

\* A content part of type text, of type image_url, of type image_url
\* without the image_url object, and of a type the translator does not know.
TextContentPart(text) == [type |-> "text", text |-> text, image_url |-> <<>>, hasUrl |-> FALSE]
ImageContentPart(url) == [type |-> "image_url", text |-> "", image_url |-> url, hasUrl |-> TRUE]
ImageContentPartNoUrl == [type |-> "image_url", text |-> "", image_url |-> <<>>, hasUrl |-> FALSE]
AudioContentPart == [type |-> "input_audio", text |-> "", image_url |-> <<>>, hasUrl |-> FALSE]

\* The callback of msg.content.reduce: what one content part adds to acc.
reducePart(acc, part) ==
  IF part.type = "text"
    THEN Append(acc, [text |-> part.text])
  ELSE IF part.type = "image_url" /\ part.hasUrl
    THEN IF startsWithData(part.image_url)
           THEN LET halves == splitOn(part.image_url, ",")
                    mimePart == piece(halves, 1)
                    dataPart == piece(halves, 2)
                    mimeType == piece(splitOn(piece(splitOn(mimePart, ":"), 2), ";"), 1)
                IN Append(acc, [inlineData |-> [mimeType |-> mimeType, data |-> dataPart]])
           ELSE Append(acc, [fileData |-> [mimeType |-> <<"image/jpeg">>,
                                           fileUri |-> part.image_url]])
  ELSE acc

\* msg.content.reduce(..., [])
RECURSIVE reduceParts(_, _)
reduceParts(acc, parts) ==
  IF parts = <<>> THEN acc ELSE reduceParts(reducePart(acc, Head(parts)), Tail(parts))

\* The user and system branch.
userParts(msg) ==
  IF msg.content.type = "string" THEN <<[text |-> msg.content.text]>>
  ELSE IF msg.content.type = "array" THEN reduceParts(<<>>, msg.content.parts)
  ELSE <<[text |-> ""]>>

\* openAIMessageToGemini(msg): an assistant message becomes a model turn,
\* any other a user turn.
openAIMessageToGemini(msg) ==
  IF msg.role = "assistant" THEN [role |-> "model", parts |-> assistantParts(msg)]
  ELSE IF msg.role = "tool" THEN [role |-> "user", parts |-> toolParts(msg)]
  ELSE [role |-> "user", parts |-> userParts(msg)]

\* messages.map(msg => this.openAIMessageToGemini(msg))
mapMessages(messages) ==
  [i \in 1..Len(messages) |-> openAIMessageToGemini(messages[i])]

\* A history that still holds the last turn.
notPopped(history) == history

\* history after history.pop(): all but the last turn.
popped(history) == SubSeq(history, 1, Len(history) - 1)

\* throw new Error('No message to send.')
NoMessageToSend == Error(<<"No message to send.">>)

NoPrompt == <<>>

NewChatReq ==
  [pc |-> "new", messages |-> <<>>, history |-> <<>>, lastMessage |-> NoPrompt,
   chat |-> 0, sentHistory |-> <<>>, sentPrompt |-> NoPrompt, sends |-> 0,
   error |-> NoError]

IdleChat ==
  /\ chatReqs = [r \in ChatReqs |-> [NewChatReq EXCEPT !.pc = "never"]]
  /\ chats = <<>>

InitChat ==
  /\ chatReqs = [r \in ChatReqs |-> NewChatReq]
  /\ chats = <<>>

\* One GeminiChat object that every request uses.
sharedChat(r) == 1

\* new GeminiChat(...): the object made for request r is its own.
oneShotChat(r) == r

\* The route handler builds a GeminiApiClient for the request and calls
\* sendMessageStream with the request's messages.
ChatArrive(r, messages) ==
  /\ chatReqs[r].pc = "new"
  /\ chatReqs' = [chatReqs EXCEPT ![r] = [@ EXCEPT !.pc = "received", !.messages = messages]]
  /\ UNCHANGED chats
  /\ UNCHANGED notChat

\* sendMessageStream up to its await: the messages are translated, the last
\* turn is popped as the prompt; without one 'No message to send.' is thrown;
\* otherwise a GeminiChat is made with the remaining history.
ChatTranslate(r) ==
  /\ chatReqs[r].pc = "received"
  /\ LET history == mapMessages(chatReqs[r].messages)
         c == oneShotChat(r)
     IN IF Len(history) = 0
          THEN /\ chatReqs' = [chatReqs EXCEPT ![r] =
                     [@ EXCEPT !.pc = "failed", !.error = NoMessageToSend]]
               /\ UNCHANGED chats
          ELSE /\ chatReqs' = [chatReqs EXCEPT ![r] =
                     [@ EXCEPT !.pc = "ready", !.chat = c,
                               !.history = popped(history),
                               !.lastMessage = history[Len(history)].parts]]
               /\ chats' = [k \in DOMAIN chats \cup {c} |->
                              IF k = c THEN popped(history) ELSE chats[k]]
  /\ UNCHANGED notChat

\* oneShotChat.sendMessageStream({message: lastMessage.parts}): the model is
\* sent the history the chat object holds and the prompt; the chat records
\* the prompt as a user turn.
ChatSend(r) ==
  /\ chatReqs[r].pc = "ready"
  /\ LET c == chatReqs[r].chat
     IN /\ chatReqs' = [chatReqs EXCEPT ![r] =
              [@ EXCEPT !.pc = "sent", !.sentHistory = chats[c],
                        !.sentPrompt = chatReqs[r].lastMessage,
                        !.sends = @ + 1]]
        /\ chats' = [chats EXCEPT ![c] =
              Append(@, [role |-> "user", parts |-> chatReqs[r].lastMessage])]
  /\ UNCHANGED notChat

\* Where sendMessageStream goes after the await has rejected, had the call
\* been wrapped in a retry loop: back to the call.
retried == "ready"

\* Where sendMessageStream goes after the await has rejected: the rejection
\* leaves the function, which has no try block, and the route's catch answers.
rejected == "failed"

\* await oneShotChat.sendMessageStream(...) rejects with e: the call was
\* made and nothing of it is recorded.
ChatSendFails(r, e) ==
  /\ chatReqs[r].pc = "ready"
  /\ chatReqs' = [chatReqs EXCEPT ![r] =
                    [@ EXCEPT !.pc = rejected, !.sends = @ + 1, !.error = e]]
  /\ UNCHANGED chats
  /\ UNCHANGED notChat

\* The model's answer has streamed: the chat records it as a model turn.
ChatAnswered(r) ==
  /\ chatReqs[r].pc = "sent"
  /\ chatReqs' = [chatReqs EXCEPT ![r] = [@ EXCEPT !.pc = "done"]]
  /\ chats' = [chats EXCEPT ![chatReqs[r].chat] = Append(@, Content("model", "answer"))]
  /\ UNCHANGED notChat

NextChat ==
  \/ \E r \in ChatReqs, messages \in Bodies : ChatArrive(r, messages)
  \/ \E r \in ChatReqs : ChatTranslate(r)
  \/ \E r \in ChatReqs : ChatSend(r)
  \/ \E r \in ChatReqs, e \in UpstreamErrors : ChatSendFails(r, e)
  \/ \E r \in ChatReqs : ChatAnswered(r)

\* The requests whose history and prompt have gone to the model.
Sent == {r \in ChatReqs : chatReqs[r].pc \in {"sent", "done"}}

\* C18: what a request sends to the model is the translation of its own
\* messages, the last one as the prompt and the others as the history,
\* whatever the other request has done by then; two requests with the same
\* messages send the same history and prompt; and no two requests use the
\* same chat object.
C18_RequestsIsolated ==
  /\ \A r \in Sent :
       /\ chatReqs[r].sentHistory = popped(mapMessages(chatReqs[r].messages))
       /\ chatReqs[r].sentPrompt =
            mapMessages(chatReqs[r].messages)[Len(chatReqs[r].messages)].parts
  /\ \A r1, r2 \in Sent :
       chatReqs[r1].messages = chatReqs[r2].messages
       => /\ chatReqs[r1].sentHistory = chatReqs[r2].sentHistory
          /\ chatReqs[r1].sentPrompt = chatReqs[r2].sentPrompt
  /\ \A r1, r2 \in ChatReqs :
       (r1 # r2 /\ chatReqs[r1].chat # 0 /\ chatReqs[r2].chat # 0)
       => chatReqs[r1].chat # chatReqs[r2].chat

\* Both requests, with different two-message bodies, have sent; the answer to
\* request 2 is in and the answer to request 1 is not.
C18_Witness ==
  /\ Sent = ChatReqs
  /\ chatReqs[1].messages # chatReqs[2].messages
  /\ Len(chatReqs[1].messages) = 2
  /\ Len(chatReqs[2].messages) = 2
  /\ chatReqs[2].pc = "done"
  /\ chatReqs[1].pc = "sent"

\* The role of the turn a message of the given role becomes.
TurnRole(role) == IF role = "assistant" THEN "model" ELSE "user"

\* C40: a request with messages m1..mn, n >= 1, that reaches the model has
\* sent it n-1 turns of history, the i-th being the translation of mi with
\* the role model for an assistant message and user for a user, system or
\* tool message, and as the prompt the parts of the translation of mn; a
\* request with no message fails with the error 'No message to send.' and
\* the model is never called for it.
C40_HistoryAndPrompt ==
  \A r \in ChatReqs :
    LET messages == chatReqs[r].messages
        n == Len(messages)
    IN /\ chatReqs[r].pc \in {"sent", "done"} =>
            /\ n >= 1
            /\ chatReqs[r].sends = 1
            /\ Len(chatReqs[r].sentHistory) = n - 1
            /\ \A i \in 1..(n - 1) :
                 /\ chatReqs[r].sentHistory[i].role = TurnRole(messages[i].role)
                 /\ chatReqs[r].sentHistory[i].parts = openAIMessageToGemini(messages[i]).parts
            /\ chatReqs[r].sentPrompt = openAIMessageToGemini(messages[n]).parts
       /\ (chatReqs[r].pc \notin {"new", "never", "received"} /\ n = 0) =>
            /\ chatReqs[r].pc = "failed"
            /\ chatReqs[r].error = NoMessageToSend
            /\ chatReqs[r].sends = 0
            /\ chatReqs[r].chat = 0
       /\ chatReqs[r].error = NoMessageToSend => n = 0

\* Request 1, a system message and then a tool result, has reached the
\* model with the system message as a user turn of history and the function
\* response as the prompt; request 2, without messages, has failed.
C40_Witness ==
  /\ chatReqs[1].pc = "sent"
  /\ chatReqs[1].messages = <<Message("system", "s"), ToolMessage>>
  /\ chatReqs[1].sentHistory = <<Content("user", "s")>>
  /\ Len(chatReqs[1].sentPrompt) = 1
  /\ chatReqs[1].sentPrompt[1].functionResponse.name = <<"f">>
  /\ chatReqs[2].pc = "failed"
  /\ chatReqs[2].messages = <<>>
  /\ chatReqs[2].sends = 0

\* ------------------------------------------ the translation of a message

\* Ids that do not follow call_<name>_<uuid>: none, one field, two fields,
\* another first field, a first field that only begins with call.
MalformedIds ==
  {<<>>, CallPrefix, CallPrefix \o <<Underscore, "f">>,
   <<"t", "o", "o", "l", Underscore, "f", Underscore, "1">>,
   CallPrefix \o <<"x", Underscore, "f", Underscore, "1">>,
   <<Underscore, "f", Underscore>>}

\* Tool-result messages: every generated id and every malformed one, with a
\* content that is a JSON object and one that is not JSON.
ToolMessages ==
  {OpenAIMessage("tool", StringContent(content), <<>>, id) :
     id \in {toolCallId(name, randomUUID(7)) : name \in FunctionNames} \cup MalformedIds,
     content \in {<<LBrace, RBrace>>, <<StringToken, StringToken>>}}

\* Tool calls whose arguments are an object, null, and not JSON.
ToolCallsDrawn ==
  {ToolCall("1", <<"f">>, <<LBrace, RBrace>>),
   ToolCall("2", <<"g">>, <<LBrace>>),
   ToolCall("3", <<"h">>, <<NullToken>>)}

AssistantMessages ==
  {OpenAIMessage("assistant", content, tool_calls, <<>>) :
     content \in {NullContent, StringContent(""), StringContent("p"),
                  ArrayContent(<<TextContentPart("p")>>)},
     tool_calls \in UNION {[1..n -> ToolCallsDrawn] : n \in 0..MaxToolCalls}}

DataUrlPng == <<"data", ":", "image/png", ";", "base64", ",", "AAAA">>
DataUrlGif == <<"data", ":", "image/gif", ",", "BBBB">>
PlainUrl == <<"https", ":", "//h/i.jpg">>

ContentParts ==
  {TextContentPart("p"), TextContentPart(""), ImageContentPart(DataUrlPng),
   ImageContentPart(DataUrlGif), ImageContentPart(PlainUrl), ImageContentPartNoUrl,
   AudioContentPart}

UserMessages ==
  {OpenAIMessage(role, content, <<>>, <<>>) :
     role \in {"user", "system"},
     content \in {NullContent, StringContent(""), StringContent("p")}
                 \cup {ArrayContent(parts) :
                         parts \in UNION {[1..n -> ContentParts] : n \in 0..MaxParts}}}

InputMessages == ToolMessages \cup AssistantMessages \cup UserMessages

NoTurn == [role |-> "", parts |-> <<>>]

IdleMsg ==
  /\ msgPc = "never"
  /\ msgIn = Message("user", "")
  /\ msgOut = NoTurn

InitMsg ==
  /\ msgPc = "new"
  /\ msgIn \in InputMessages
  /\ msgOut = NoTurn

\* history = messages.map(msg => this.openAIMessageToGemini(msg)), for one
\* message.
TranslateMessage ==
  /\ msgPc = "new"
  /\ msgOut' = openAIMessageToGemini(msgIn)
  /\ msgPc' = "translated"
  /\ UNCHANGED msgIn
  /\ UNCHANGED notMsg

NextMsg == TranslateMessage

\* The positions of the underscores of an id.
Underscores(id) == {i \in 1..Len(id) : id[i] = Underscore}

\* An id of at least three underscore-separated fields whose first is call.
WellFormedId(id) ==
  /\ Cardinality(Underscores(id)) >= 2
  /\ Len(id) >= 5
  /\ SubSeq(id, 1, 5) = CallPrefix \o <<Underscore>>

\* The text of an id between its leading call_ and its last underscore.
NameInId(id) ==
  LET last == CHOOSE i \in Underscores(id) : \A j \in Underscores(id) : j <= i
  IN SubSeq(id, 6, last - 1)

\* C26: a tool-result message is translated to a user turn of exactly one
\* part, a functionResponse with the call id of the message; its name is the
\* text of the id between the leading call_ and the last underscore when the
\* id has at least three underscore-separated fields the first of which is
\* call, and unknown_tool_from_id otherwise.
C26_ToolResultTurn ==
  (msgPc = "translated" /\ msgIn.role = "tool") =>
    /\ msgOut.role = "user"
    /\ Len(msgOut.parts) = 1
    /\ DOMAIN msgOut.parts[1] = {"functionResponse"}
    /\ msgOut.parts[1].functionResponse.id = msgIn.tool_call_id
    /\ msgOut.parts[1].functionResponse.name =
         (IF WellFormedId(msgIn.tool_call_id)
            THEN NameInId(msgIn.tool_call_id)
            ELSE unknown_tool_from_id)

\* The tool result of a call whose function name holds an underscore was
\* translated and the name was recovered with it.
C26_Witness ==
  /\ msgPc = "translated"
  /\ msgIn.role = "tool"
  /\ Len(msgOut.parts) = 1
  /\ Len(msgOut.parts[1].functionResponse.name) = 3
  /\ msgOut.parts[1].functionResponse.name[2] = Underscore
  /\ msgOut.parts[1].functionResponse.name # unknown_tool_from_id

\* A tool call whose arguments are JSON.
HasJsonArguments(call) == ~JSONparse(call.function.arguments).threw

\* C27: an assistant message is translated to one model turn: the text part
\* when the content is a non-empty string, then one functionCall part, with
\* the name and the parsed arguments, for each tool call whose arguments are
\* JSON, in the order of the message; and the turn is the one the message
\* gives without its tool calls whose arguments are not JSON.
C27_AssistantTurn ==
  (msgPc = "translated" /\ msgIn.role = "assistant") =>
    LET calls == SelectSeq(msgIn.tool_calls, HasJsonArguments)
        text == IF msgIn.content.type = "string" /\ msgIn.content.text # ""
                  THEN <<[text |-> msgIn.content.text]>>
                  ELSE <<>>
    IN /\ msgOut.role = "model"
       /\ msgOut.parts =
            text \o [i \in 1..Len(calls) |->
                       [functionCall |->
                          [name |-> calls[i].function.name,
                           args |-> JSONparse(calls[i].function.arguments).value]]]
       /\ msgOut = openAIMessageToGemini([msgIn EXCEPT !.tool_calls = calls])

\* An assistant message with a text and two tool calls, the first with
\* arguments that are not JSON, was translated to the text and the second call.
C27_Witness ==
  /\ msgPc = "translated"
  /\ msgIn.role = "assistant"
  /\ Len(msgIn.tool_calls) = 2
  /\ ~HasJsonArguments(msgIn.tool_calls[1])
  /\ HasJsonArguments(msgIn.tool_calls[2])
  /\ Len(msgOut.parts) = 2
  /\ msgOut.parts[1] = [text |-> "p"]
  /\ msgOut.parts[2].functionCall.name = msgIn.tool_calls[2].function.name

\* A part with an empty text and neither inlineData nor fileData.
IsEmptyPart(part) ==
  /\ "text" \in DOMAIN part
  /\ part.text = ""
  /\ "inlineData" \notin DOMAIN part
  /\ "fileData" \notin DOMAIN part

\* C28: the user turn a user or system message with a multi-part content is
\* translated to holds no part with an empty text and neither inlineData nor
\* fileData, and no more parts than the message.
C28_NoEmptyParts ==
  (msgPc = "translated" /\ msgIn.role \in {"user", "system"}
     /\ msgIn.content.type = "array") =>
    /\ msgOut.role = "user"
    /\ Len(msgOut.parts) <= Len(msgIn.content.parts)
    /\ \A i \in 1..Len(msgOut.parts) : ~IsEmptyPart(msgOut.parts[i])

\* ------------------------------------------------ the tool-choice directive

\* tool_choice: missing, a string, or an object with or without type and
\* with or without function.
NoToolChoice == [js |-> "undefined", string |-> "", type |-> "", hasFunction |-> FALSE, name |-> <<>>]
StringChoice(string) ==
  [js |-> "string", string |-> string, type |-> "", hasFunction |-> FALSE, name |-> <<>>]
ObjectChoice(type, hasFunction, name) ==
  [js |-> "object", string |-> "", type |-> type, hasFunction |-> hasFunction, name |-> name]

\* The directives drawn: none, the three words, an object naming a function
\* (of type function, of another type, and without type), an object of type
\* function that names none.
ToolChoices ==
  {NoToolChoice, StringChoice("auto"), StringChoice("none"), StringChoice("required"),
   ObjectChoice("function", FALSE, <<>>)}
  \cup {ObjectChoice(type, TRUE, name) :
          type \in {"function", "allowed_tools", ""}, name \in FunctionNames}

\* generationConfig = {}
EmptyConfig == [toolConfig |-> FALSE, mode |-> "", restricted |-> FALSE,
                allowedFunctionNames |-> <<>>]

\* generationConfig.toolConfig.functionCallingConfig; restricted is whether
\* allowedFunctionNames is defined.
FunctionCallingConfig(mode, restricted, allowedFunctionNames) ==
  [toolConfig |-> TRUE, mode |-> mode, restricted |-> restricted,
   allowedFunctionNames |-> allowedFunctionNames]

\* tool_choice && tool_choice !== 'auto'
isForcing(choice) ==
  /\ choice.js # "undefined"
  /\ ~(choice.js = "string" /\ choice.string \in {"", "auto"})

\* The generationConfig built from tool_choice: a string has neither type
\* nor function.
toolConfigOf(choice) ==
  IF isForcing(choice)
    THEN FunctionCallingConfig(
           IF choice.js = "object" /\ choice.type = "function" THEN "ANY" ELSE "AUTO",
           choice.js = "object" /\ choice.hasFunction,
           IF choice.js = "object" /\ choice.hasFunction THEN <<choice.name>> ELSE <<>>)
    ELSE EmptyConfig

IdleChoice ==
  /\ tcPc = "never"
  /\ tool_choice = NoToolChoice
  /\ generationConfig = EmptyConfig

InitChoice ==
  /\ tcPc = "new"
  /\ tool_choice \in ToolChoices
  /\ generationConfig = EmptyConfig

\* sendMessageStream builds generationConfig from tool_choice.
ConfigureToolChoice ==
  /\ tcPc = "new"
  /\ generationConfig' = toolConfigOf(tool_choice)
  /\ tcPc' = "configured"
  /\ UNCHANGED tool_choice
  /\ UNCHANGED notChoice

NextChoice == ConfigureToolChoice

\* A directive that forces one specific function.
ForcesOneFunction(choice) ==
  choice.js = "object" /\ choice.type = "function" /\ choice.hasFunction

\* C29: without a directive or with auto no function-calling mode is set;
\* a directive that forces one function gives mode ANY with exactly that
\* function's name allowed; every other directive gives mode ANY with no
\* name restriction.
C29_ToolChoiceModes ==
  tcPc = "configured" =>
    IF tool_choice \in {NoToolChoice, StringChoice("auto")}
      THEN generationConfig = EmptyConfig
    ELSE IF ForcesOneFunction(tool_choice)
      THEN generationConfig = FunctionCallingConfig("ANY", TRUE, <<tool_choice.name>>)
    ELSE generationConfig = FunctionCallingConfig("ANY", FALSE, <<>>)

\* ------------------------------------------------ the error classification

NotMapped == [openAIError |-> OpenAIError(<<>>, "", ""), statusCode |-> 0]

IdleErr ==
  /\ errPc = "never"
  /\ errThrown = NoError
  /\ errMapped = NotMapped

InitErr ==
  /\ errPc = "new"
  /\ errThrown \in ThrownValues
  /\ errMapped = NotMapped

\* The catch block of the route calls mapErrorToOpenAIError(e).
MapError ==
  /\ errPc = "new"
  /\ errMapped' = mapErrorToOpenAIError(errThrown)
  /\ errPc' = "mapped"
  /\ UNCHANGED errThrown
  /\ UNCHANGED notErr

NextErr == MapError

\* The message holds one of the words.
HoldsAny(message, words) == \E i \in 1..Len(message) : message[i] \in words

\* C30: every thrown value is classified, with a status among 400, 401,
\* 429 and 500: a value that is not an Error as 500 server_error with the
\* generic message; an Error whose message holds Authentication failed as 401
\* authentication_error; otherwise one that holds 429 or quota in any case
\* as 429 rate_limit_exceeded; otherwise one that holds 400 or invalid in any
\* case as 400 invalid_request_error; otherwise as 500 server_error.
C30_ErrorClassification ==
  errPc = "mapped" =>
    LET message == errThrown.message
        error == errMapped.openAIError
    IN /\ errMapped.statusCode \in {400, 401, 429, 500}
       /\ IF errThrown.kind # "Error"
            THEN /\ errMapped.statusCode = 500
                 /\ error.type = "server_error"
                 /\ error.message = <<"An unknown error occurred.">>
          ELSE IF HoldsAny(message, {"Authentication failed"})
            THEN /\ errMapped.statusCode = 401
                 /\ error.type = "authentication_error"
          ELSE IF HoldsAny(message, {"429", "quota", "Quota", "QUOTA"})
            THEN /\ errMapped.statusCode = 429
                 /\ error.code = "rate_limit_exceeded"
          ELSE IF HoldsAny(message, {"400", "invalid", "Invalid", "INVALID"})
            THEN /\ errMapped.statusCode = 400
                 /\ error.type = "invalid_request_error"
                 /\ error.message = message
          ELSE /\ errMapped.statusCode = 500
               /\ error.type = "server_error"
               /\ error.message = message

\* An error whose message holds QUOTA and then 400 was classified as 429.
C30_Witness ==
  /\ errPc = "mapped"
  /\ errThrown = Error(<<"QUOTA", "400">>)
  /\ errMapped.statusCode = 429

\* ------------------------------------------- the callback of a registered tool

\* The messages the tools are taken to fail with.
UpstreamFailures == {<<"ENOENT">>, <<"request", "timed", "out">>, <<"Quota", "exceeded">>}

\* A part of llmContent: a bare string, a text part, or a part of another kind.
StringPart(text) == [type |-> "string", text |-> text]
TextPart(text) == [type |-> "text", text |-> text]
OtherPart == [type |-> "inlineData", text |-> ""]

\* ToolResult.llmContent: a string, one part, or an array of parts.
LlmString(text) == [kind |-> "string", text |-> text, parts |-> <<>>]
LlmPart(part) == [kind |-> "part", text |-> "", parts |-> <<part>>]
LlmArray(parts) == [kind |-> "array", text |-> "", parts |-> parts]

\* The results the tools are taken to return.
ToolResults ==
  {LlmString("out"), LlmPart(TextPart("t")), LlmArray(<<StringPart("s"), OtherPart>>)}

\* One block of the content of a CallToolResult.
TextBlock(text) == [type |-> "text", text |-> text]

\* A test that takes every part with a text field, an empty one too.
hasTextField(part) == part.type = "text"

\* 'text' in part && part.text
hasText(part) == part.type = "text" /\ part.text # ""

\* convertGcliResultToMcpResult(gcliResult).content
convertGcliResultToMcpResult(llmContent) ==
  IF llmContent.kind = "string"
    THEN <<TextBlock(llmContent.text)>>
    ELSE [i \in 1..Len(llmContent.parts) |->
            LET part == llmContent.parts[i]
            IN IF part.type = "string" THEN TextBlock(part.text)
               ELSE IF hasText(part) THEN TextBlock(part.text)
               ELSE TextBlock("[Unsupported Part Type]")]

\* The callback's catch block: the error is logged with the tool's name and
\* thrown again as it is.
rethrow(toolName, e) == e

\* What the SDK answers a call with when the callback returns: its result.
CallResult(content) == [isError |-> FALSE, content |-> content, message |-> <<>>]

\* What the SDK answers a call with when the callback throws: the message of
\* the error thrown, flagged as an error.
CallError(e) == [isError |-> TRUE, content |-> <<>>, message |-> e.message]

NoCall == [tool |-> "", executes |-> 0]

IdleTool ==
  /\ toolCall = NoCall
  /\ toolLog = <<>>

\* A tools/call message for the tool reaches its callback, which calls
\* execute(args, extra.signal) once.
CallTool(name) ==
  /\ toolCall = NoCall
  /\ Len(toolLog) < MaxCalls
  /\ toolCall' = [tool |-> name, executes |-> 1]
  /\ UNCHANGED toolLog
  /\ UNCHANGED notTool

\* execute resolves with a result: the callback returns its conversion.
ExecuteReturns(llmContent) ==
  /\ toolCall # NoCall
  /\ toolLog' = Append(toolLog,
       [tool |-> toolCall.tool, executes |-> toolCall.executes, upstream |-> <<>>,
        answer |-> CallResult(convertGcliResultToMcpResult(llmContent))])
  /\ toolCall' = NoCall
  /\ UNCHANGED notTool

\* execute rejects with an Error of the given message: the catch block runs.
ExecuteThrows(message) ==
  /\ toolCall # NoCall
  /\ toolLog' = Append(toolLog,
       [tool |-> toolCall.tool, executes |-> toolCall.executes, upstream |-> message,
        answer |-> CallError(rethrow(toolCall.tool, Error(message)))])
  /\ toolCall' = NoCall
  /\ UNCHANGED notTool

NextTool ==
  \/ \E name \in AllTools : CallTool(name)
  \/ \E llmContent \in ToolResults : ExecuteReturns(llmContent)
  \/ \E message \in UpstreamFailures : ExecuteThrows(message)

\* C20: the error that answers a call whose execute failed holds the name of
\* the tool and every word of the upstream failure message.
C20_ErrorCarriesToolName ==
  \A i \in 1..Len(toolLog) :
    toolLog[i].answer.isError
    => /\ includes(toolLog[i].answer.message, toolLog[i].tool)
       /\ \A j \in 1..Len(toolLog[i].upstream) :
            includes(toolLog[i].answer.message, toolLog[i].upstream[j])

\* ------------------------------------- the schemas of external tools

\* JSON values.
VUndefined == [k |-> "undefined"]
VNull == [k |-> "null"]
VString == [k |-> "string"]
VNumber == [k |-> "number"]
VBoolean == [k |-> "boolean"]
VArray(elems) == [k |-> "array", elems |-> elems]
VObject(members) == [k |-> "object", members |-> members]
Member(key, value) == [key |-> key, value |-> value]

\* value[key]: the member's value, undefined without one.
get(value, key) ==
  IF \E i \in 1..Len(value.members) : value.members[i].key = key
    THEN value.members[CHOOSE i \in 1..Len(value.members) : value.members[i].key = key].value
    ELSE VUndefined

\* The keys a for...in loop over an array yields.
indexKey(i) == <<"0", "1", "2", "3">>[i]

\* The members a for...in loop over an object or an array visits.
forIn(value) ==
  CASE value.k = "object" -> value.members
    [] value.k = "array" -> [i \in 1..Len(value.elems) |-> Member(indexKey(i), value.elems[i])]
    [] OTHER -> <<>>

\* key !== '$schema' && key !== 'additionalProperties'
isSupportedKey(member) == member.key \notin {"$schema", "additionalProperties"}

\* if (newSchema.properties), if (newSchema.items)
truthy(value) == value.k \notin {"undefined", "null"}

\* sanitizeGeminiSchema(schema): a value that is not an object is returned
\* as it is; of an object (an array is one) the members under supported
\* keys are copied to a new object, in which the values of properties and
\* the value of items are replaced by what the function returns for them.
RECURSIVE sanitizeGeminiSchema(_)
sanitizeGeminiSchema(schema) ==
  IF schema.k \notin {"object", "array"} THEN schema
  ELSE LET copied == SelectSeq(forIn(schema), isSupportedKey)
           newProperties(properties) ==
             VObject([i \in 1..Len(forIn(properties)) |->
                        Member(forIn(properties)[i].key,
                               sanitizeGeminiSchema(forIn(properties)[i].value))])
       IN VObject([i \in 1..Len(copied) |->
                     IF copied[i].key = "properties" /\ truthy(copied[i].value)
                       THEN Member("properties", newProperties(copied[i].value))
                     ELSE IF copied[i].key = "items" /\ truthy(copied[i].value)
                       THEN Member("items", sanitizeGeminiSchema(copied[i].value))
                     ELSE copied[i]])

\* The members a schema has besides properties and items: none, a type, and
\* a type with the two keys the model's API does not know.
Keywords ==
  {<<>>, <<Member("type", VString)>>,
   <<Member("$schema", VString), Member("type", VString),
     Member("additionalProperties", VBoolean)>>}

\* Schemas with at most d levels below them: a schema has a property "a",
\* a property named additionalProperties, items that are one schema, or
\* items that are a list of schemas (the tuple form).
RECURSIVE SchemasOfDepth(_)
SchemasOfDepth(d) ==
  IF d = 0
    THEN {VNull, VBoolean} \cup {VObject(keywords) : keywords \in Keywords}
    ELSE LET below == SchemasOfDepth(d - 1)
         IN below
            \cup {VObject(keywords \o <<Member("properties", VObject(<<Member("a", sub)>>))>>) :
                    keywords \in Keywords, sub \in below}
            \cup {VObject(<<Member("properties",
                                   VObject(<<Member("additionalProperties", sub)>>))>>) :
                    sub \in below}
            \cup {VObject(<<Member("items", sub)>> \o keywords) :
                    keywords \in Keywords, sub \in below}
            \cup {VObject(<<Member("type", VString), Member("items", VArray(<<sub>>))>>) :
                    sub \in below}

\* tool.function.parameters of the tools of a request: missing, or a schema.
ExternalSchemas == {VUndefined} \cup SchemasOfDepth(MaxSchemaDepth)

\* The function writes to newSchema and newProperties only: the object it
\* was called with holds afterwards what it held before.
afterCall(schema) == schema

IdleSanitize ==
  /\ sanPc = "never"
  /\ sanReceived = VUndefined
  /\ sanParameters = VUndefined
  /\ sanitizedParameters = VUndefined

\* A request has arrived with a tool of type function.
InitSanitize ==
  /\ sanPc = "new"
  /\ sanReceived \in ExternalSchemas
  /\ sanParameters = sanReceived
  /\ sanitizedParameters = VUndefined

\* convertOpenAIToolsToGemini: the declaration of the tool gets
\* sanitizeGeminiSchema(tool.function.parameters) as its parameters.
SanitizeParameters ==
  /\ sanPc = "new"
  /\ sanitizedParameters' = sanitizeGeminiSchema(sanParameters)
  /\ sanParameters' = afterCall(sanParameters)
  /\ sanPc' = "sanitized"
  /\ UNCHANGED sanReceived
  /\ UNCHANGED notSanitize

NextSanitize == SanitizeParameters

\* The value under key, a member of the object being known to exist or not.
has(value, key) == \E i \in 1..Len(value.members) : value.members[i].key = key

RECURSIVE Stripped(_)
\* No schema reachable through properties or items (the schemas of a list
\* of items too) has one of the two keys.
Stripped(schema) ==
  CASE schema.k = "array" -> \A i \in 1..Len(schema.elems) : Stripped(schema.elems[i])
    [] schema.k = "object" ->
         /\ ~has(schema, "$schema")
         /\ ~has(schema, "additionalProperties")
         /\ has(schema, "properties") /\ get(schema, "properties").k = "object" =>
              \A i \in 1..Len(get(schema, "properties").members) :
                Stripped(get(schema, "properties").members[i].value)
         /\ has(schema, "items") => Stripped(get(schema, "items"))
    [] OTHER -> TRUE

RECURSIVE Preserved(_, _)
\* after holds what before held, but for the two keys: a value that is no
\* object is the same value, a list is a list of as many schemas, an object
\* has the other keys of before in their order with their values, those of
\* properties and items being preserved in this sense.
Preserved(before, after) ==
  CASE before.k = "array" ->
         /\ after.k = "array"
         /\ Len(after.elems) = Len(before.elems)
         /\ \A i \in 1..Len(before.elems) : Preserved(before.elems[i], after.elems[i])
    [] before.k = "object" ->
         LET kept == SelectSeq(before.members, isSupportedKey)
         IN /\ after.k = "object"
            /\ Len(after.members) = Len(kept)
            /\ \A i \in 1..Len(kept) :
                 /\ after.members[i].key = kept[i].key
                 /\ IF kept[i].key = "properties" /\ kept[i].value.k = "object"
                      THEN /\ after.members[i].value.k = "object"
                           /\ Len(after.members[i].value.members) = Len(kept[i].value.members)
                           /\ \A j \in 1..Len(kept[i].value.members) :
                                /\ after.members[i].value.members[j].key
                                     = kept[i].value.members[j].key
                                /\ Preserved(kept[i].value.members[j].value,
                                             after.members[i].value.members[j].value)
                    ELSE IF kept[i].key = "items"
                      THEN Preserved(kept[i].value, after.members[i].value)
                    ELSE after.members[i].value = kept[i].value
    [] OTHER -> after = before

RECURSIVE ItemsAreSchemas(_)
\* No items of the schema is a list.
ItemsAreSchemas(schema) ==
  CASE schema.k = "array" -> FALSE
    [] schema.k = "object" ->
         /\ has(schema, "properties") /\ get(schema, "properties").k = "object" =>
              \A i \in 1..Len(get(schema, "properties").members) :
                ItemsAreSchemas(get(schema, "properties").members[i].value)
         /\ has(schema, "items") => ItemsAreSchemas(get(schema, "items"))
    [] OTHER -> TRUE

\* C35: after the parameter schema of an external tool was sanitized, no
\* schema reachable from the root of the result through properties or items
\* has the key $schema or additionalProperties, every other key and value
\* of the input is in the result, the object of the request holds what it
\* held when it arrived, and sanitizing the result gives the result.
C35_SanitizedSchema ==
  sanPc = "sanitized" =>
    /\ Stripped(sanitizedParameters)
    /\ Preserved(sanReceived, sanitizedParameters)
    /\ sanParameters = sanReceived
    /\ sanitizeGeminiSchema(sanitizedParameters) = sanitizedParameters

\* The same of the schemas none of whose items is a list.
SanitizedWhereItemsAreSchemas ==
  (sanPc = "sanitized" /\ ItemsAreSchemas(sanReceived)) =>
    /\ Stripped(sanitizedParameters)
    /\ Preserved(sanReceived, sanitizedParameters)
    /\ sanParameters = sanReceived
    /\ sanitizeGeminiSchema(sanitizedParameters) = sanitizedParameters

\* ------------------------------------------- the model of the web tools

\* toolRegistry.getAllTools(), in the order of the registry.
RegistryTools == <<"read_file", "google_web_search", "run_shell_command", "web_fetch">>

\* The model the configuration was created with.
OriginalModel == "gemini-2.5-pro"

\* process.env.GEMINI_TOOLS_DEFAULT_MODEL: not set, set to nothing, set.
NoEnv == [js |-> "undefined", value |-> ""]
EnvString(value) == [js |-> "string", value |-> value]
EnvValues == {NoEnv, EnvString(""), EnvString("gemini-1.5-flash")}

\* if (toolModel)
isSet(toolModel) == toolModel.js = "string" /\ toolModel.value # ""

\* A test that takes every tool for a web tool.
isAnyTool(name) == TRUE

\* tool.name === 'google_web_search' || tool.name === 'web_fetch'
isWebTool(name) == name \in {"google_web_search", "web_fetch"}

\* this.config as the registry's tools hold it, and the Proxy of it whose
\* getModel returns toolModel.
SharedConfig == [proxy |-> FALSE, toolModel |-> ""]
ProxyConfig(toolModel) == [proxy |-> TRUE, toolModel |-> toolModel.value]

\* cfg.getModel(): the handler's function for a proxy, Reflect.get(target)
\* for the configuration itself.
getModel(cfg, target) == IF cfg.proxy THEN cfg.toolModel ELSE target.model

\* The tool of the registry, and new WebSearchTool(proxyConfig) /
\* new WebFetchTool(proxyConfig).
RegistryInstance(name) == [name |-> name, instance |-> "registry", config |-> SharedConfig]
NewInstance(name, proxyConfig) == [name |-> name, instance |-> "new", config |-> proxyConfig]

\* toolInstanceForExecution
toolInstanceForExecution(name, toolModel) ==
  IF isWebTool(name) /\ isSet(toolModel)
    THEN NewInstance(name, ProxyConfig(toolModel))
    ELSE RegistryInstance(name)

IdleRebind ==
  /\ toolModelEnv = NoEnv
  /\ config = [model |-> OriginalModel]
  /\ registered = <<>>
  /\ executions = <<>>

\* A session's server has been created and no tool is registered on it yet.
InitRebind ==
  /\ toolModelEnv \in EnvValues
  /\ config = [model |-> OriginalModel]
  /\ registered = <<>>
  /\ executions = <<>>

\* registerAllGcliTools: registerGcliTool for the next tool of the registry.
RegisterGcliTool ==
  /\ Len(registered) < Len(RegistryTools)
  /\ LET name == RegistryTools[Len(registered) + 1]
     IN registered' = Append(registered, toolInstanceForExecution(name, toolModelEnv))
  /\ UNCHANGED <<toolModelEnv, config, executions>>
  /\ UNCHANGED notRebind

\* A call of a registered tool: toolInstanceForExecution.execute runs and
\* asks its configuration for the model.
ExecuteRegistered(i) ==
  /\ i \in 1..Len(registered)
  /\ Len(executions) < MaxExecutions
  /\ executions' = Append(executions,
       [name |-> registered[i].name, instance |-> registered[i].instance,
        model |-> getModel(registered[i].config, config)])
  /\ UNCHANGED <<toolModelEnv, config, registered>>
  /\ UNCHANGED notRebind

NextRebind ==
  \/ RegisterGcliTool
  \/ \E i \in 1..Len(RegistryTools) : ExecuteRegistered(i)

\* The tool is one of the two web tools and the override holds a model.
IsRebound(name) ==
  /\ name \in {"google_web_search", "web_fetch"}
  /\ toolModelEnv.js = "string"
  /\ toolModelEnv.value # ""

\* C34: of the tools registered on a session, exactly google_web_search and
\* web_fetch, and only when the environment override holds a model, execute
\* as a new instance whose configuration reports the override; every other
\* tool executes as the instance of the registry and sees the original
\* model, and the shared configuration still reports its original model.
C34_WebToolsRebound ==
  /\ config.model = OriginalModel
  /\ \A i \in 1..Len(registered) :
       /\ registered[i].name = RegistryTools[i]
       /\ IF IsRebound(registered[i].name)
            THEN /\ registered[i].instance = "new"
                 /\ getModel(registered[i].config, config) = toolModelEnv.value
            ELSE /\ registered[i] = RegistryInstance(registered[i].name)
                 /\ getModel(registered[i].config, config) = OriginalModel
  /\ \A j \in 1..Len(executions) :
       IF IsRebound(executions[j].name)
         THEN executions[j].instance = "new" /\ executions[j].model = toolModelEnv.value
         ELSE executions[j].instance = "registry" /\ executions[j].model = OriginalModel

\* With the override set, web_fetch ran with the override's model and
\* read_file ran after it with the original one.
C34_Witness ==
  /\ toolModelEnv = EnvString("gemini-1.5-flash")
  /\ Len(registered) = Len(RegistryTools)
  /\ Len(executions) = 2
  /\ executions[1] = [name |-> "web_fetch", instance |-> "new", model |-> "gemini-1.5-flash"]
  /\ executions[2] = [name |-> "read_file", instance |-> "registry", model |-> OriginalModel]

\* ------------------------------------------- the conversion of a tool result

\* Parts without a text field: a function response, an executable code part.
FunctionResponsePart == [type |-> "functionResponse", text |-> ""]
ExecutableCodePart == [type |-> "executableCode", text |-> ""]

\* The parts the converted results are made of.
ResultParts ==
  {StringPart("s"), StringPart(""), TextPart("t"), TextPart("u"), TextPart(""),
   OtherPart, FunctionResponsePart, ExecutableCodePart}

\* ToolResult.llmContent: a string, one part, or an array of at most
\* MaxResultParts parts.
GcliResults ==
  {LlmString("out"), LlmString("")}
  \cup {LlmPart(part) : part \in ResultParts}
  \cup {LlmArray(parts) : parts \in UNION {[1..n -> ResultParts] : n \in 0..MaxResultParts}}

IdleResult ==
  /\ grPc = "never"
  /\ grContent = LlmString("")
  /\ grBlocks = <<>>

\* execute has resolved with some result.
InitResult ==
  /\ grPc = "new"
  /\ grContent \in GcliResults
  /\ grBlocks = <<>>

\* return this.convertGcliResultToMcpResult(result)
ConvertResult ==
  /\ grPc = "new"
  /\ grBlocks' = convertGcliResultToMcpResult(grContent)
  /\ grPc' = "converted"
  /\ UNCHANGED grContent
  /\ UNCHANGED notResult

NextResult == ConvertResult

\* C33: the conversion of a tool result drops no part. A plain-text result
\* is exactly one text block with that text; a list of n parts (a single
\* part is a list of one) is exactly n blocks in the order of the parts: the
\* block of a part that is a string or has a non-empty text is a text block
\* with that text, the block of every other part is the placeholder
\* [Unsupported Part Type].
C33_ResultConversion ==
  grPc = "converted" =>
    IF grContent.kind = "string"
      THEN grBlocks = <<TextBlock(grContent.text)>>
      ELSE /\ Len(grBlocks) = Len(grContent.parts)
           /\ \A i \in 1..Len(grContent.parts) :
                LET part == grContent.parts[i]
                IN /\ grBlocks[i].type = "text"
                   /\ grBlocks[i].text =
                        (IF part.type = "string" \/ part.text # ""
                           THEN part.text
                           ELSE "[Unsupported Part Type]")

\* A result of two parts was converted whose first part has an empty text
\* and whose second is a text: a placeholder, then the text.
C33_Witness ==
  /\ grPc = "converted"
  /\ grContent = LlmArray(<<TextPart(""), TextPart("t")>>)
  /\ grBlocks = <<TextBlock("[Unsupported Part Type]"), TextBlock("t")>>

\* ------------------------------------- parameter schemas and validators

\* The JavaScript values undefined and null.
Undefined == [js |-> "undefined"]
Null == [js |-> "null"]

\* !x for the values a schema is made of.
Falsy(x) == x.js \in {"undefined", "null"}

\* A property declaration without type (or with a falsy one).
NoType == ""

\* jsonSchema.properties: missing, null, or the list Object.entries gives.
NoProperties == [js |-> "undefined", entries |-> <<>>]
NullProperties == [js |-> "null", entries |-> <<>>]
Properties(entries) == [js |-> "object", entries |-> entries]
Entry(key, prop) == [key |-> key, prop |-> prop]

\* jsonSchema.required: missing, an array of keys, or a value that is
\* neither falsy nor an array (true).
NoRequired == [js |-> "undefined", keys |-> {}]
RequiredArray(keys) == [js |-> "array", keys |-> keys]
RequiredNotArray == [js |-> "boolean", keys |-> {}]

\* A JSON schema object.
JsonSchema(type, items, properties, required) ==
  [js |-> "object", type |-> type, items |-> items, properties |-> properties,
   required |-> required]

TypeOnly(type) == JsonSchema(type, Undefined, NoProperties, NoRequired)

PropertyKeys == {"a", "b"}

\* The values of required the schemas are drawn with.
Requireds == {NoRequired, RequiredArray({}), RequiredArray({"a"}), RequiredNotArray}

\* Property declarations without nesting: a null entry, no type, the scalar
\* types, a type the switch does not know, an array without items, an object
\* without properties.
LeafProps ==
  {Null, TypeOnly(NoType), TypeOnly("string"), TypeOnly("number"), TypeOnly("boolean"),
   TypeOnly("integer"), TypeOnly("array"), TypeOnly("object")}

\* Property declarations with at most d levels of nesting below them.
RECURSIVE PropsOfDepth(_)
PropsOfDepth(d) ==
  IF d = 0
    THEN LeafProps
    ELSE LET below == PropsOfDepth(d - 1)
         IN below
            \cup {JsonSchema("array", item, NoProperties, NoRequired) : item \in below}
            \cup {JsonSchema("object", Undefined, Properties(<<Entry("a", prop)>>), req) :
                    prop \in below, req \in Requireds}

\* tool.schema.parameters: missing, without properties, with null
\* properties, with one property of any depth, or with two leaf properties.
ParameterSchemas ==
  {Undefined,
   JsonSchema("object", Undefined, NoProperties, NoRequired),
   JsonSchema("object", Undefined, NullProperties, NoRequired),
   JsonSchema("object", Undefined, Properties(<<>>), RequiredNotArray)}
  \cup {JsonSchema("object", Undefined, Properties(<<Entry("a", prop)>>), req) :
          prop \in PropsOfDepth(MaxDepth), req \in Requireds}
  \cup {JsonSchema("object", Undefined,
                   Properties(<<Entry("a", p1), Entry("b", p2)>>), RequiredArray({"a"})) :
          p1 \in LeafProps, p2 \in LeafProps}

\* Zod validators.
ZAny == [z |-> "any"]
ZString == [z |-> "string"]
ZNumber == [z |-> "number"]
ZBoolean == [z |-> "boolean"]
ZArray(element) == [z |-> "array", element |-> element]
ZObject(shape, unknownKeys) == [z |-> "object", shape |-> shape, unknownKeys |-> unknownKeys]
ZOptional(inner) == [z |-> "optional", inner |-> inner]

\* The TypeError a conversion ends with instead of a validator.
Thrown == [z |-> "TypeError"]

\* One field of a shape.
Field(key, schema) == [key |-> key, schema |-> schema]

\* What convertJsonSchemaToZod ends with: a shape, or the TypeError.
Shape(fields) == [threw |-> FALSE, fields |-> fields]
ThrownShape == [threw |-> TRUE, fields |-> <<>>]

\* An array case that fails on a declaration without items.
arrayNoItemsThrows(prop) == Thrown

\* The array case on a declaration without items:
\* z.array(z.any()).describe(...)
arrayNoItems(prop) == ZArray(ZAny)

\* A field schema that is optional whatever required says.
fieldSchemaAlwaysOptional(required, key, schema) == ZOptional(schema)

\* fieldSchema.optional() unless jsonSchema.required includes the key;
\* includes is not a function of a value that is not an array.
fieldSchema(required, key, schema) ==
  IF Falsy(required) THEN ZOptional(schema)
  ELSE IF required.js # "array" THEN Thrown
  ELSE IF key \in required.keys THEN schema
  ELSE ZOptional(schema)

RECURSIVE convertProperty(_)
RECURSIVE convertJsonSchemaToZod(_)

\* convertProperty(prop): the validator of one property declaration.
convertProperty(prop) ==
  IF Falsy(prop) THEN ZAny
  ELSE IF prop.type = NoType THEN ZAny
  ELSE CASE prop.type = "string" -> ZString
         [] prop.type = "number" -> ZNumber
         [] prop.type = "boolean" -> ZBoolean
         [] prop.type = "array" ->
              IF Falsy(prop.items)
                THEN arrayNoItems(prop)
                ELSE LET element == convertProperty(prop.items)
                     IN IF element = Thrown THEN Thrown ELSE ZArray(element)
         [] prop.type = "object" ->
              LET shape == convertJsonSchemaToZod(prop)
              IN IF shape.threw THEN Thrown ELSE ZObject(shape.fields, "passthrough")
         [] OTHER -> ZAny

\* convertJsonSchemaToZod(jsonSchema): the shape with one field per entry
\* of jsonSchema.properties; an exception in the loop leaves the function.
convertJsonSchemaToZod(jsonSchema) ==
  IF Falsy(jsonSchema) THEN Shape(<<>>)
  ELSE IF Falsy(jsonSchema.properties) THEN Shape(<<>>)
  ELSE LET entries == jsonSchema.properties.entries
           converted == [i \in 1..Len(entries) |-> convertProperty(entries[i].prop)]
           fields == [i \in 1..Len(entries) |->
                        IF converted[i] = Thrown
                          THEN Thrown
                          ELSE fieldSchema(jsonSchema.required, entries[i].key,
                                           converted[i])]
       IN IF \E i \in 1..Len(entries) : fields[i] = Thrown
            THEN ThrownShape
            ELSE Shape([i \in 1..Len(entries) |-> Field(entries[i].key, fields[i])])

\* schema.safeParse(value).success
RECURSIVE accepts(_, _)
accepts(schema, value) ==
  CASE schema.z = "any" -> TRUE
    [] schema.z = "string" -> value.k = "string"
    [] schema.z = "number" -> value.k = "number"
    [] schema.z = "boolean" -> value.k = "boolean"
    [] schema.z = "optional" -> value.k = "undefined" \/ accepts(schema.inner, value)
    [] schema.z = "array" ->
         /\ value.k = "array"
         /\ \A i \in 1..Len(value.elems) : accepts(schema.element, value.elems[i])
    [] schema.z = "object" ->
         /\ value.k = "object"
         /\ \A i \in 1..Len(schema.shape) :
              accepts(schema.shape[i].schema, get(value, schema.shape[i].key))
         /\ schema.unknownKeys = "strict" =>
              \A i \in 1..Len(value.members) :
                \E j \in 1..Len(schema.shape) : schema.shape[j].key = value.members[i].key

\* Scalars, and the arrays of at most MaxArrayLen scalars.
ScalarValues == {VNull, VString, VNumber, VBoolean}
ArrayValues == {VArray(elems) : elems \in UNION {[1..n -> ScalarValues] : n \in 0..MaxArrayLen}}

\* The values of one argument: none, a scalar, an array (of scalars, or one
\* holding an array and an object), an object with and without a key "c".
ArgumentValues ==
  {VUndefined} \cup ScalarValues \cup ArrayValues
  \cup {VArray(<<VArray(<<VString>>), VObject(<<>>)>>)}
  \cup {VObject(<<>>), VObject(<<Member("a", VString)>>), VObject(<<Member("a", VNumber)>>),
        VObject(<<Member("a", VString), Member("c", VNull)>>)}

\* The arguments of a call: "a" with any value, or "a" and "b" with scalars.
Arguments ==
  {VObject(IF v = VUndefined THEN <<>> ELSE <<Member("a", v)>>) : v \in ArgumentValues}
  \cup {VObject(<<Member("a", v), Member("b", w)>>) : v \in ScalarValues, w \in ScalarValues}

IdleSchema ==
  /\ scPc = "never"
  /\ scSchema = Undefined
  /\ scArgs = VObject(<<>>)
  /\ scShape = Shape(<<>>)
  /\ scAccepted = FALSE

\* A tool with some parameter schema is about to be registered, and a call
\* with some arguments is going to reach it.
InitSchema ==
  /\ scPc = "new"
  /\ scSchema \in ParameterSchemas
  /\ scArgs \in Arguments
  /\ scShape = Shape(<<>>)
  /\ scAccepted = FALSE

\* registerGcliTool: inputSchema is convertJsonSchemaToZod(tool.schema.parameters).
RegisterTool ==
  /\ scPc = "new"
  /\ scShape' = convertJsonSchemaToZod(scSchema)
  /\ scPc' = IF scShape'.threw THEN "failed" ELSE "registered"
  /\ UNCHANGED <<scSchema, scArgs, scAccepted>>
  /\ UNCHANGED notSchema

\* A call arrives: the SDK parses its arguments with z.object(inputSchema).
ValidateArguments ==
  /\ scPc = "registered"
  /\ scAccepted' = accepts(ZObject(scShape.fields, "strip"), scArgs)
  /\ scPc' = "validated"
  /\ UNCHANGED <<scSchema, scArgs, scShape>>
  /\ UNCHANGED notSchema

NextSchema ==
  \/ RegisterTool
  \/ ValidateArguments

\* Object.entries(jsonSchema.properties) of the schemas that have some.
entriesOf(jsonSchema) ==
  IF Falsy(jsonSchema) THEN <<>> ELSE jsonSchema.properties.entries

\* A declaration of type array without items.
IsArrayWithoutItems(prop) ==
  /\ ~Falsy(prop)
  /\ prop.type = "array"
  /\ Falsy(prop.items)

\* The field of the shape under key.
fieldOf(shape, key) ==
  shape.fields[CHOOSE i \in 1..Len(shape.fields) : shape.fields[i].key = key].schema

\* C23: a property declared as an array without items is converted, without
\* an exception, to a validator that accepts every array; in the shape of a
\* registered tool its field is that validator, optional or not, and a call
\* whose argument under the key is an array is not rejected because of it; a
\* schema all of whose properties are such declarations, with required missing
\* or a list, is translated without an exception.
C23_ArrayWithoutItems ==
  \A i \in 1..Len(entriesOf(scSchema)) :
    LET key == entriesOf(scSchema)[i].key
        prop == entriesOf(scSchema)[i].prop
    IN IsArrayWithoutItems(prop) =>
         /\ convertProperty(prop) # Thrown
         /\ \A v \in ArrayValues \cup {VArray(<<VArray(<<VString>>), VObject(<<>>)>>)} :
              accepts(convertProperty(prop), v)
         /\ scPc \in {"registered", "validated"} =>
              /\ fieldOf(scShape, key) \in {ZArray(ZAny), ZOptional(ZArray(ZAny))}
              /\ accepts(fieldOf(scShape, key), get(scArgs, key))
                   = (get(scArgs, key).k = "array"
                      \/ (get(scArgs, key).k = "undefined"
                          /\ fieldOf(scShape, key).z = "optional"))
         /\ (/\ scPc # "new"
             /\ scSchema.required.js \in {"undefined", "array"}
             /\ \A j \in 1..Len(entriesOf(scSchema)) :
                  IsArrayWithoutItems(entriesOf(scSchema)[j].prop))
            => ~scShape.threw

\* A tool whose required parameter is an array without items was registered
\* and a call with an array of mixed scalars passed validation.
C23_Witness ==
  /\ scPc = "validated"
  /\ entriesOf(scSchema) = <<Entry("a", TypeOnly("array"))>>
  /\ scSchema.required = RequiredArray({"a"})
  /\ get(scArgs, "a") = VArray(<<VNull, VString>>)
  /\ scAccepted

\* A declaration whose type is missing or is none the switch knows.
HasNoKnownType(prop) ==
  \/ Falsy(prop)
  \/ prop.type \notin {"string", "number", "boolean", "array", "object"}

\* C31: the translation of a parameter schema never ends with an exception,
\* whatever the schema is (missing, without or with null properties, with a
\* required that is not an array, with null property entries, with unknown or
\* missing types): the registration always gets a shape, and in it a property
\* without a known type is the unconstrained validator, optional or not.
C31_TranslationNeverThrows ==
  scPc # "new" =>
    /\ ~scShape.threw
    /\ scPc # "failed"
    /\ \A i \in 1..Len(entriesOf(scSchema)) :
         HasNoKnownType(entriesOf(scSchema)[i].prop) =>
           fieldOf(scShape, entriesOf(scSchema)[i].key) \in {ZAny, ZOptional(ZAny)}

\* The validator below .optional().
unwrap(schema) == IF schema.z = "optional" THEN schema.inner ELSE schema

\* The keys jsonSchema.required lists: none when it is missing.
requiredKeys(jsonSchema) ==
  IF jsonSchema.required.js = "array" THEN jsonSchema.required.keys ELSE {}

RECURSIVE OptionalIffNotRequired(_, _)
RECURSIVE NestedLevels(_, _)

\* In the fields made from jsonSchema, a field is optional exactly when its
\* key is not in jsonSchema.required, and the same holds below every field.
OptionalIffNotRequired(jsonSchema, fields) ==
  LET entries == entriesOf(jsonSchema)
  IN /\ Len(fields) = Len(entries)
     /\ \A i \in 1..Len(entries) :
          /\ fields[i].key = entries[i].key
          /\ (fields[i].schema.z = "optional") <=> (entries[i].key \notin requiredKeys(jsonSchema))
          /\ NestedLevels(entries[i].prop, unwrap(fields[i].schema))

\* The levels below one declaration: a nested object is an object validator
\* that lets unknown keys through and whose fields follow its own required;
\* an array leads to its items.
NestedLevels(prop, schema) ==
  IF Falsy(prop) THEN TRUE
  ELSE CASE prop.type = "object" ->
              /\ schema.z = "object"
              /\ schema.unknownKeys = "passthrough"
              /\ OptionalIffNotRequired(prop, schema.shape)
         [] prop.type = "array" /\ ~Falsy(prop.items) ->
              /\ schema.z = "array"
              /\ NestedLevels(prop.items, schema.element)
         [] OTHER -> TRUE

\* value with one more member under a key no declaration names.
withUndeclared(value) == VObject(Append(value.members, Member("zz", VNull)))

\* C32: in the shape of a registered tool, at the root and at every nested
\* level, a property is optional exactly when its key is not in the required
\* list of the object schema that declares it (none is, when the list is
\* missing); a nested object is validated by a validator that lets undeclared
\* keys pass: an argument it accepts is still accepted with one more key.
C32_OptionalIffNotRequired ==
  scPc \in {"registered", "validated"} =>
    /\ OptionalIffNotRequired(scSchema, scShape.fields)
    /\ \A i \in 1..Len(entriesOf(scSchema)) :
         LET prop == entriesOf(scSchema)[i].prop
             schema == unwrap(scShape.fields[i].schema)
         IN (~Falsy(prop) /\ prop.type = "object") =>
              \A v \in ArgumentValues :
                (v.k = "object" /\ accepts(schema, v)) => accepts(schema, withUndeclared(v))

\* A tool was registered whose parameter "a" is not required at the root and
\* is an object that requires its own "a"; a call passed validation whose
\* argument holds that key and an undeclared one.
C32_Witness ==
  /\ scPc = "validated"
  /\ entriesOf(scSchema) =
       <<Entry("a", JsonSchema("object", Undefined,
                               Properties(<<Entry("a", TypeOnly("string"))>>),
                               RequiredArray({"a"})))>>
  /\ scSchema.required = RequiredArray({})
  /\ scShape.fields[1].schema.z = "optional"
  /\ unwrap(scShape.fields[1].schema).shape[1].schema = ZString
  /\ get(scArgs, "a") = VObject(<<Member("a", VString), Member("c", VNull)>>)
  /\ scAccepted

\* ---------------------------------------------------------- no retries

\* One chat-completion request beside the tool callback: the second request
\* never arrives.
InitOneChat ==
  /\ chatReqs = [r \in ChatReqs |-> IF r = 1 THEN NewChatReq
                                     ELSE [NewChatReq EXCEPT !.pc = "never"]]
  /\ chats = <<>>

NextCalls == NextTool \/ NextChat

\* C21: no tool call, answered or in progress, has had execute invoked more
\* than once, and no chat-completion request has had the model's
\* send-message operation invoked more than once; a call that was answered,
\* with a result or an error, and a request whose send was made, answered or
\* rejected, have had exactly one invocation.
C21_NoRetries ==
  /\ toolCall.executes <= 1
  /\ \A i \in 1..Len(toolLog) : toolLog[i].executes = 1
  /\ \A r \in ChatReqs :
       /\ chatReqs[r].sends <= 1
       /\ chatReqs[r].pc \in {"sent", "done"} => chatReqs[r].sends = 1
       /\ (chatReqs[r].pc = "failed" /\ Len(chatReqs[r].messages) > 0)
          => chatReqs[r].sends = 1

\* A tool call was answered with an error and the request's send was
\* rejected.
C21_Witness ==
  /\ \E i \in 1..Len(toolLog) : toolLog[i].answer.isError
  /\ chatReqs[1].pc = "failed"
  /\ Len(chatReqs[1].messages) = 2
  /\ chatReqs[1].sends = 1

\* ------------------------------------------------------ specifications

\* Every part but the one a specification is about stays idle.
IdleStream == InitStream

\* One streaming chat-completion request.
Init == InitStream /\ IdleId /\ IdleMcp /\ IdleChat /\ IdlePayload /\ IdleTool /\ IdleSchema /\ IdlePair /\ IdleMsg /\ IdleChoice /\ IdleErr /\ IdleResult /\ IdleRebind /\ IdleSanitize

Spec == Init /\ [][NextStream]_vars

\* The streaming route with a client that may go away. Abort changes nothing
\* the handler reads, so Spec leaves it out.
InitAbort == InitStream /\ IdleId /\ IdleMcp /\ IdleChat /\ IdlePayload /\ IdleTool /\ IdleSchema /\ IdlePair /\ IdleMsg /\ IdleChoice /\ IdleErr /\ IdleResult /\ IdleRebind /\ IdleSanitize

SpecAbort == InitAbort /\ [][NextStreamAbort]_vars

\* The steps the runtime takes on its own once they are possible: the pipe
\* between the streams, the read loop and the handler's continuations. The
\* request arriving and what the model does are not among them.
RuntimeStep ==
  \/ Transform
  \/ Flush
  \/ PipeError
  \/ Write
  \/ End
  \/ Catch

\* One streaming request served by a runtime that runs every callback that
\* is ready.
InitServed == InitStream /\ IdleId /\ IdleMcp /\ IdleChat /\ IdlePayload /\ IdleTool /\ IdleSchema /\ IdlePair /\ IdleMsg /\ IdleChoice /\ IdleErr /\ IdleResult /\ IdleRebind /\ IdleSanitize

SpecServed == InitServed /\ [][NextStream]_vars /\ WF_vars(RuntimeStep)

\* The id round trip for every function name.
InitIdRoundTrip == IdleStream /\ InitId /\ IdleMcp /\ IdleChat /\ IdlePayload /\ IdleTool /\ IdleSchema /\ IdlePair /\ IdleMsg /\ IdleChoice /\ IdleErr /\ IdleResult /\ IdleRebind /\ IdleSanitize

SpecId == InitIdRoundTrip /\ [][NextId]_vars

\* The /mcp endpoint under concurrent requests.
InitRegistry == IdleStream /\ IdleId /\ InitMcp /\ IdleChat /\ IdlePayload /\ IdleTool /\ IdleSchema /\ IdlePair /\ IdleMsg /\ IdleChoice /\ IdleErr /\ IdleResult /\ IdleRebind /\ IdleSanitize

SpecMcp == InitRegistry /\ [][NextMcp]_vars

\* Two chat-completion requests whose model invocations interleave.
InitConversations == IdleStream /\ IdleId /\ IdleMcp /\ InitChat /\ IdlePayload /\ IdleTool /\ IdleSchema /\ IdlePair /\ IdleMsg /\ IdleChoice /\ IdleErr /\ IdleResult /\ IdleRebind /\ IdleSanitize

SpecChat == InitConversations /\ [][NextChat]_vars

\* The translation of every tool-result content.
InitToolResult == IdleStream /\ IdleId /\ IdleMcp /\ IdleChat /\ InitPayload /\ IdleTool /\ IdleSchema /\ IdlePair /\ IdleMsg /\ IdleChoice /\ IdleErr /\ IdleResult /\ IdleRebind /\ IdleSanitize

SpecPayload == InitToolResult /\ [][NextPayload]_vars

\* The callback of a registered tool over a few calls.
InitToolCalls == IdleStream /\ IdleId /\ IdleMcp /\ IdleChat /\ IdlePayload /\ IdleTool /\ IdleSchema /\ IdlePair /\ IdleMsg /\ IdleChoice /\ IdleErr /\ IdleResult /\ IdleRebind /\ IdleSanitize

SpecTool == InitToolCalls /\ [][NextTool]_vars

\* The registration of a tool with any parameter schema and a call to it.
InitRegistration == IdleStream /\ IdleId /\ IdleMcp /\ IdleChat /\ IdlePayload /\ IdleTool /\ InitSchema /\ IdlePair /\ IdleMsg /\ IdleChoice /\ IdleErr /\ IdleResult /\ IdleRebind /\ IdleSanitize

SpecSchema == InitRegistration /\ [][NextSchema]_vars

\* Two streaming responses whose events interleave.
InitResponses == IdleStream /\ IdleId /\ IdleMcp /\ IdleChat /\ IdlePayload /\ IdleTool /\ IdleSchema /\ InitPair /\ IdleMsg /\ IdleChoice /\ IdleErr /\ IdleResult /\ IdleRebind /\ IdleSanitize

SpecPair == InitResponses /\ [][NextPair]_vars

\* The translation of every message.
InitTranslation == IdleStream /\ IdleId /\ IdleMcp /\ IdleChat /\ IdlePayload /\ IdleTool /\ IdleSchema /\ IdlePair /\ InitMsg /\ IdleChoice /\ IdleErr /\ IdleResult /\ IdleRebind /\ IdleSanitize

SpecMessage == InitTranslation /\ [][NextMsg]_vars

\* The configuration built from every tool-choice directive.
InitDirective == IdleStream /\ IdleId /\ IdleMcp /\ IdleChat /\ IdlePayload /\ IdleTool /\ IdleSchema /\ IdlePair /\ IdleMsg /\ InitChoice /\ IdleErr /\ IdleResult /\ IdleRebind /\ IdleSanitize

SpecChoice == InitDirective /\ [][NextChoice]_vars

\* The classification of every thrown value.
InitClassification == IdleStream /\ IdleId /\ IdleMcp /\ IdleChat /\ IdlePayload /\ IdleTool /\ IdleSchema /\ IdlePair /\ IdleMsg /\ IdleChoice /\ InitErr /\ IdleResult /\ IdleRebind /\ IdleSanitize

SpecError == InitClassification /\ [][NextErr]_vars

\* The tool callback and one chat-completion request side by side.
InitCalls == IdleStream /\ IdleId /\ IdleMcp /\ InitOneChat /\ IdlePayload /\ IdleTool /\ IdleSchema /\ IdlePair /\ IdleMsg /\ IdleChoice /\ IdleErr /\ IdleResult /\ IdleRebind /\ IdleSanitize

SpecCalls == InitCalls /\ [][NextCalls]_vars

\* The conversion of every tool result.
InitConversion == IdleStream /\ IdleId /\ IdleMcp /\ IdleChat /\ IdlePayload /\ IdleTool /\ IdleSchema /\ IdlePair /\ IdleMsg /\ IdleChoice /\ IdleErr /\ InitResult /\ IdleRebind /\ IdleSanitize

SpecResult == InitConversion /\ [][NextResult]_vars

\* The registration of the tools with every value of the override.
InitRegistrations == IdleStream /\ IdleId /\ IdleMcp /\ IdleChat /\ IdlePayload /\ IdleTool /\ IdleSchema /\ IdlePair /\ IdleMsg /\ IdleChoice /\ IdleErr /\ IdleResult /\ InitRebind /\ IdleSanitize

SpecRebind == InitRegistrations /\ [][NextRebind]_vars

\* The sanitization of every schema of an external tool.
InitExternalTool == IdleStream /\ IdleId /\ IdleMcp /\ IdleChat /\ IdlePayload /\ IdleTool /\ IdleSchema /\ IdlePair /\ IdleMsg /\ IdleChoice /\ IdleErr /\ IdleResult /\ IdleRebind /\ InitSanitize

SpecSanitize == InitExternalTool /\ [][NextSanitize]_vars

====
